---- MODULE Spec2Model ----
(***************************************************************************)
(* Attribution and MMM engine of Hypeon Analytics: click-ID attribution,   *)
(* the fractional / Markov pass, run_mmm, the attribution-vs-MMM report     *)
(* and the pipeline that chains them.                                       *)
(*                                                                          *)
(* Conventions.  A Python Optional is a set: None is {} and a value x is   *)
(* {x}.  A Python str is a sequence of one-character strings, so that      *)
(* str.strip() is computed and not assumed.  A float is an exact rational  *)
(* <<n, d>> with d > 0 in lowest terms.  A table is the sequence of its    *)
(* rows in primary-key order.                                               *)
(***************************************************************************)
EXTENDS Integers, Sequences, FiniteSets, TLC

VARIABLES
    raw_shopify_orders,        \* table raw_shopify_orders
    raw_shopify_transactions,  \* table raw_shopify_transactions
    raw_woocommerce_orders,    \* table raw_woocommerce_orders
    raw_ad_clicks,             \* table raw_ad_clicks
    raw_ads,                   \* tables raw_meta_ads, raw_google_ads, raw_bing_ads, raw_pinterest_ads
    ingest_audit,              \* table ingest_audit
    attribution_events,        \* table attribution_events
    mmm_results,               \* table mmm_results
    unified_daily_metrics,     \* table unified_daily_metrics
    engine_run_metadata,       \* table engine_run_metadata
    diagnostics_cache,         \* _last_mta_diagnostics and _last_mmm_diagnostics
    pipeline_subscribers,      \* app.state.pipeline_subscribers: one queue per SSE subscriber
    last_attr,                 \* what the last run_attribution call did and returned
    last_mmm,                  \* what the last run_mmm call did and returned
    report,                    \* the last report build_attribution_mmm_report returned
    pipe,                      \* the pipeline request in progress, or the last one
    n_calls,                   \* number of calls made so far
    last_ingest,               \* what the last run_ingest call did, and over which files
    http,                      \* the last HTTP request handled outside the pipeline, and its answer
    last_metrics,              \* what the last run_metrics call was given and found
    copilot_sessions,          \* table copilot_sessions
    copilot_messages           \* table copilot_messages

vars == <<raw_shopify_orders, raw_shopify_transactions, raw_woocommerce_orders, raw_ad_clicks, raw_ads, ingest_audit, attribution_events, mmm_results, unified_daily_metrics, engine_run_metadata, diagnostics_cache, pipeline_subscribers, last_attr, last_mmm, report, pipe, n_calls, last_ingest, http, last_metrics, copilot_sessions, copilot_messages>>

\* The tables of the Copilot conversations.
copilot_tables == <<copilot_sessions, copilot_messages>>

\* The tables run_ingest writes.
raw_tables == <<raw_shopify_orders, raw_shopify_transactions, raw_woocommerce_orders, raw_ad_clicks, raw_ads, ingest_audit>>

\* ------------------------------------------------------------------------
\* Optional values
\* ------------------------------------------------------------------------
None == {}

Some(x) == {x}

Get(opt) == CHOOSE x \in opt : TRUE

\* ------------------------------------------------------------------------
\* Exact rationals for Python floats
\* ------------------------------------------------------------------------
Abs(x) == IF x < 0 THEN -x ELSE x

RECURSIVE GCD(_, _)
GCD(a, b) == IF b = 0 THEN a ELSE GCD(b, a % b)

R(n, d) ==
    LET g == GCD(Abs(n), Abs(d))
        s == IF d < 0 THEN -1 ELSE 1
    IN  IF n = 0 THEN <<0, 1>> ELSE <<(s * n) \div g, (s * d) \div g>>

RInt(n) == <<n, 1>>

\* Sums go through the least common denominator, which keeps the integers small.
RAdd(x, y) ==
    LET g == GCD(x[2], y[2])
    IN  R(x[1] * (y[2] \div g) + y[1] * (x[2] \div g), (x[2] \div g) * y[2])

RNeg(x) == <<-x[1], x[2]>>

RSub(x, y) == RAdd(x, RNeg(y))

RMul(x, y) == R(x[1] * y[1], x[2] * y[2])

RDiv(x, y) == R(x[1] * y[2], x[2] * y[1])

RAbs(x) == <<Abs(x[1]), x[2]>>

RLt(x, y) == x[1] * y[2] < y[1] * x[2]

RLe(x, y) == x[1] * y[2] <= y[1] * x[2]

RZero == RInt(0)

ROne == RInt(1)

\* ------------------------------------------------------------------------
\* Strings as character sequences
\* ------------------------------------------------------------------------
IsSpace(c) == c = " "

RECURSIVE LStrip(_)
LStrip(s) == IF s # <<>> /\ IsSpace(Head(s)) THEN LStrip(Tail(s)) ELSE s

RECURSIVE RStrip(_)
RStrip(s) ==
    IF s # <<>> /\ IsSpace(s[Len(s)]) THEN RStrip(SubSeq(s, 1, Len(s) - 1)) ELSE s

Strip(s) == RStrip(LStrip(s))

\* ------------------------------------------------------------------------
\* Sequence helpers
\* ------------------------------------------------------------------------
Range(s) == {s[i] : i \in DOMAIN s}

\* ------------------------------------------------------------------------
\* Channels and the ad-spend tables
\* ------------------------------------------------------------------------
DefaultChannels == <<"meta", "google", "bing", "pinterest">>

ChannelSet == Range(DefaultChannels)

InWindow(d, start, end) == d >= start /\ d <= end

\* ------------------------------------------------------------------------
\* run_click_id_attribution
\* ------------------------------------------------------------------------
\* The rows of raw_ad_clicks dated in the window, in table order.
ClickRowsInWindow(start, end) ==
    LET Test(r) == InWindow(r.date, start, end)
    IN  SelectSeq(raw_ad_clicks, Test)

\* clicks = {r.click_id: (channel, campaign_id, campaign_name) for r in rows}:
\* a later row with the same click_id replaces an earlier one.
ClicksDict(start, end) ==
    LET rows == ClickRowsInWindow(start, end)
        keys == {rows[i].click_id : i \in DOMAIN rows}
        Last(k) == CHOOSE i \in DOMAIN rows :
                      /\ rows[i].click_id = k
                      /\ \A j \in DOMAIN rows : rows[j].click_id = k => j <= i
    IN  [k \in keys |->
            [channel |-> rows[Last(k)].channel,
             campaign_id |-> rows[Last(k)].campaign_id,
             campaign_name |-> rows[Last(k)].campaign_name]]

\* float(order.net_revenue if order.net_revenue is not None else order.revenue)
OrderRevenue(o) == IF o.net_revenue # None THEN Get(o.net_revenue) ELSE o.revenue

\* not order.click_id or not str(order.click_id).strip()
ClickIdBlank(o) ==
    \/ o.click_id = None
    \/ Get(o.click_id) = <<>>
    \/ Strip(Get(o.click_id)) = <<>>

\* The key looked up in clicks: order.click_id.strip()
ClickKey(o) == Strip(Get(o.click_id))

\* The loop body without its `if revenue <= 0: continue`.
ClickAttributableAnyRevenue(o, clicks) ==
    /\ o.click_id # None
    /\ Strip(Get(o.click_id)) # <<>>
    /\ Strip(Get(o.click_id)) \in DOMAIN clicks

\* The three `continue` tests of the loop body, negated: the order gets an event.
ClickAttributable(o, clicks) ==
    /\ ~ClickIdBlank(o)
    /\ ClickKey(o) \in DOMAIN clicks
    /\ OrderRevenue(o) > 0

ClickEvent(o, clicks, run_id) ==
    [order_id |-> o.order_id,
     channel |-> clicks[ClickKey(o)].channel,
     campaign_id |-> Some(clicks[ClickKey(o)].campaign_id),
     cost_center |-> clicks[ClickKey(o)].campaign_name,
     weight |-> ROne,
     allocated_revenue |-> RInt(OrderRevenue(o)),
     event_date |-> o.order_date,
     run_id |-> run_id]

\* One of the two loops: the orders of one table dated in the window, in table order.
RECURSIVE ClickLoop(_, _, _, _, _)
ClickLoop(orders, clicks, run_id, start, end) ==
    IF orders = <<>> THEN <<>>
    ELSE LET o == Head(orders)
             rest == ClickLoop(Tail(orders), clicks, run_id, start, end)
         IN  IF InWindow(o.order_date, start, end) /\ ClickAttributable(o, clicks)
             THEN <<ClickEvent(o, clicks, run_id)>> \o rest
             ELSE rest

\* The whole pass: what it adds to the session, the order_ids it returns and its count.
ClickPass(run_id, start, end) ==
    LET clicks == ClicksDict(start, end)
        evs == IF DOMAIN clicks = {} THEN <<>>
               ELSE ClickLoop(raw_shopify_orders, clicks, run_id, start, end)
                    \o ClickLoop(raw_woocommerce_orders, clicks, run_id, start, end)
    IN  [events |-> evs,
         attributed |-> {evs[i].order_id : i \in DOMAIN evs},
         count |-> Len(evs)]

\* ------------------------------------------------------------------------
\* The fractional / Markov pass
\* ------------------------------------------------------------------------
\* The loop without its `if o.order_id in exclude: continue`.
RECURSIVE OrdersLoopKeepingExcluded(_, _, _, _)
OrdersLoopKeepingExcluded(orders, start, end, exclude) ==
    IF orders = <<>> THEN <<>>
    ELSE LET o == Head(orders)
             rest == OrdersLoopKeepingExcluded(Tail(orders), start, end, exclude)
         IN  IF InWindow(o.order_date, start, end)
             THEN <<[order_id |-> o.order_id,
                     order_date |-> o.order_date,
                     revenue |-> OrderRevenue(o)]>> \o rest
             ELSE rest

\* exclude = order_ids_to_exclude or set(); one loop per orders table.
RECURSIVE OrdersLoop(_, _, _, _)
OrdersLoop(orders, start, end, exclude) ==
    IF orders = <<>> THEN <<>>
    ELSE LET o == Head(orders)
             rest == OrdersLoop(Tail(orders), start, end, exclude)
         IN  IF InWindow(o.order_date, start, end) /\ o.order_id \notin exclude
             THEN <<[order_id |-> o.order_id,
                     order_date |-> o.order_date,
                     revenue |-> OrderRevenue(o)]>> \o rest
             ELSE rest

OrdersDf(start, end, exclude) ==
    OrdersLoop(raw_shopify_orders, start, end, exclude)
    \o OrdersLoop(raw_woocommerce_orders, start, end, exclude)

\* The rows of one ad table dated in the window, tagged with the table's channel.
RECURSIVE SpendLoop(_, _, _, _)
SpendLoop(rows, ch, start, end) ==
    IF rows = <<>> THEN <<>>
    ELSE LET r == Head(rows)
             rest == SpendLoop(Tail(rows), ch, start, end)
         IN  IF InWindow(r.date, start, end)
             THEN <<[date |-> r.date, channel |-> ch, spend |-> r.spend]>> \o rest
             ELSE rest

\* The spend rows of a window one day too wide on either side.
DailySpendOfWiderWindow(start, end) ==
    SpendLoop(raw_ads["meta"], "meta", start - 1, end + 1)
    \o SpendLoop(raw_ads["google"], "google", start - 1, end + 1)
    \o SpendLoop(raw_ads["bing"], "bing", start - 1, end + 1)
    \o SpendLoop(raw_ads["pinterest"], "pinterest", start - 1, end + 1)

DailySpendByChannel(start, end) ==
    SpendLoop(raw_ads["meta"], "meta", start, end)
    \o SpendLoop(raw_ads["google"], "google", start, end)
    \o SpendLoop(raw_ads["bing"], "bing", start, end)
    \o SpendLoop(raw_ads["pinterest"], "pinterest", start, end)

\* list(daily_spend["channel"].unique()) if not daily_spend.empty else the four defaults
RunChannels(daily_spend) ==
    IF daily_spend = <<>> THEN ChannelSet
    ELSE {daily_spend[i].channel : i \in DOMAIN daily_spend}

\* markov_credits(sequences, channels, min_sequences): None below the threshold,
\* else a credit per channel that sums to 1.  The removal-effect arithmetic is
\* not computed here: `credit` is the vector it returns, chosen by the caller.
MarkovCredits(sequences, channels, min_sequences, credit) ==
    IF Len(sequences) < min_sequences THEN None ELSE Some(credit)

\* The credit vectors considered: an even split, or twice the credit for one channel.
MarkovCreditChoices(channels) ==
    LET n == Cardinality(channels)
    IN  {[c \in channels |-> R(1, n)]}
        \cup {[c \in channels |-> IF c = h THEN R(2, n + 1) ELSE R(1, n + 1)] : h \in channels}

\* The substitution without its `if markov_w is not None`.
CoreWeightsUnchecked(channel_weights, session_sequences, channels, min_sequences, credit) ==
    IF session_sequences # None
    THEN MarkovCredits(Get(session_sequences), channels, min_sequences, credit)
    ELSE channel_weights

\* weights = channel_weights, replaced by the Markov credits when
\* session_sequences is given and markov_credits returns a vector.
CoreWeights(channel_weights, session_sequences, channels, min_sequences, credit) ==
    IF session_sequences # None
       /\ MarkovCredits(Get(session_sequences), channels, min_sequences, credit) # None
    THEN MarkovCredits(Get(session_sequences), channels, min_sequences, credit)
    ELSE channel_weights

\* Total spend of a channel over the daily_spend rows.
RECURSIVE SpendTotal(_, _)
SpendTotal(daily_spend, ch) ==
    IF daily_spend = <<>> THEN 0
    ELSE (IF Head(daily_spend).channel = ch THEN Head(daily_spend).spend ELSE 0)
         + SpendTotal(Tail(daily_spend), ch)

RECURSIVE RSumOver(_, _)
RSumOver(f, S) ==
    IF S = {} THEN RZero
    ELSE LET x == CHOOSE y \in S : TRUE IN RAdd(f[x], RSumOver(f, S \ {x}))

\* fractional_allocate's weight per channel: explicit weights normalised over the
\* channels with spend, else the share of spend, else an equal split of the defaults.
AllocationWeights(daily_spend, weights) ==
    LET spent == {c \in ChannelSet : SpendTotal(daily_spend, c) > 0}
        total == SpendTotal(daily_spend, "meta") + SpendTotal(daily_spend, "google")
                 + SpendTotal(daily_spend, "bing") + SpendTotal(daily_spend, "pinterest")
        given == [c \in ChannelSet |->
                     IF weights # None /\ c \in DOMAIN Get(weights)
                     THEN Get(weights)[c] ELSE RZero]
        gsum == RSumOver(given, spent)
    IN  [c \in ChannelSet |->
            IF spent = {} THEN R(1, Len(DefaultChannels))
            ELSE IF c \notin spent THEN RZero
            ELSE IF weights # None /\ gsum # RZero THEN RDiv(given[c], gsum)
            ELSE R(SpendTotal(daily_spend, c), total)]

RECURSIVE AllocateOrder(_, _, _)
AllocateOrder(o, w, chans) ==
    IF chans = <<>> THEN <<>>
    ELSE LET c == Head(chans)
             rest == AllocateOrder(o, w, Tail(chans))
         IN  IF w[c] # RZero
             THEN <<[order_id |-> o.order_id, order_date |-> o.order_date,
                     channel |-> c, weight |-> w[c],
                     allocated_revenue |-> RMul(RInt(o.revenue), w[c])]>> \o rest
             ELSE rest

\* fractional_allocate(orders, daily_spend, channel_weights): for each order one
\* tuple per channel with nonzero weight.
RECURSIVE FractionalAllocate(_, _, _)
FractionalAllocate(orders, daily_spend, weights) ==
    IF orders = <<>> THEN <<>>
    ELSE AllocateOrder(Head(orders), AllocationWeights(daily_spend, weights), DefaultChannels)
         \o FractionalAllocate(Tail(orders), daily_spend, weights)

CoreEvent(a, run_id) ==
    [order_id |-> a.order_id,
     channel |-> a.channel,
     campaign_id |-> None,
     cost_center |-> None,
     weight |-> a.weight,
     allocated_revenue |-> a.allocated_revenue,
     event_date |-> a.order_date,
     run_id |-> run_id]

\* _core_attribution_logic: the orders it loads, the weights it hands to
\* fractional_allocate, and the events it adds and commits.
CorePass(run_id, start, end, channel_weights, session_sequences, min_sequences, credit, exclude) ==
    LET orders == OrdersDf(start, end, exclude)
        daily_spend == DailySpendByChannel(start, end)
        channels == RunChannels(daily_spend)
        weights == CoreWeights(channel_weights, session_sequences, channels,
                               min_sequences, credit)
        allocated == FractionalAllocate(orders, daily_spend, weights)
    IN  IF orders = <<>>
        THEN [orders |-> <<>>, ran |-> FALSE, channels |-> {}, weights |-> None,
              events |-> <<>>]
        ELSE [orders |-> orders, ran |-> TRUE, channels |-> channels, weights |-> weights,
              events |-> [i \in DOMAIN allocated |-> CoreEvent(allocated[i], run_id)]]

\* ------------------------------------------------------------------------
\* run_attribution and run_attribution_with_diagnostics
\* ------------------------------------------------------------------------
\* Where a call can raise: nowhere, inside the click-ID pass (a query or its
\* commit), or inside the fractional pass (a query, the allocation or its commit).
FailPoints == {"none", "click", "core"}

NoAttr ==
    [status |-> "none", api |-> "none", run_id |-> "", start |-> 0, end |-> 0,
     channel_weights |-> None, session_sequences |-> None, min_sequences |-> 0,
     credit |-> None, click |-> [events |-> <<>>, attributed |-> {}, count |-> 0],
     core |-> [orders |-> <<>>, ran |-> FALSE, channels |-> {}, weights |-> None,
               events |-> <<>>],
     committed |-> <<>>, result |-> None, diag_sequences |-> None]

\* _synthetic_sequences_from_allocated: one path per order_id of the allocation.
SyntheticSequenceCount(core_events) ==
    Cardinality({core_events[i].order_id : i \in DOMAIN core_events})

\* The sequences handed to run_diagnostics: session_sequences, else the
\* synthetic ones when something was allocated, else none.
DiagnosticSequenceCount(session_sequences, core_events) ==
    IF session_sequences # None THEN Len(Get(session_sequences))
    ELSE IF core_events # <<>> THEN SyntheticSequenceCount(core_events)
    ELSE 0

\* The rows a call leaves committed: the click-ID pass commits its own events
\* when it wrote any, the fractional pass commits its events afterwards.
Committed(click, core, fail) ==
    IF fail = "click" THEN <<>>
    ELSE IF fail = "core" THEN click.events
    ELSE click.events \o core.events

AttributionCall(api, run_id, start, end, channel_weights, session_sequences, min_sequences, credit, fail) ==
    LET click == ClickPass(run_id, start, end)
        core == CorePass(run_id, start, end, channel_weights, session_sequences,
                         min_sequences, credit, click.attributed)
        done == Committed(click, core, fail)
    IN  /\ attribution_events' = attribution_events \o done
        /\ last_attr' =
             [status |-> IF fail = "none" THEN "ok" ELSE "failed",
              api |-> api, run_id |-> run_id, start |-> start, end |-> end,
              channel_weights |-> channel_weights,
              session_sequences |-> session_sequences,
              min_sequences |-> min_sequences,
              credit |-> Some(credit),
              click |-> IF fail = "click" THEN NoAttr.click ELSE click,
              core |-> IF fail = "none" THEN core ELSE NoAttr.core,
              committed |-> done,
              result |-> IF fail = "none" THEN Some(click.count + Len(core.events))
                         ELSE None,
              diag_sequences |->
                  IF fail = "none" /\ api = "run_attribution_with_diagnostics"
                  THEN Some(DiagnosticSequenceCount(session_sequences, core.events))
                  ELSE None]
        /\ n_calls' = n_calls + 1

RunAttribution(run_id, start, end, channel_weights, session_sequences, min_sequences, credit, fail) ==
    /\ AttributionCall("run_attribution", run_id, start, end, channel_weights,
                       session_sequences, min_sequences, credit, fail)
    /\ UNCHANGED <<copilot_tables, last_metrics, http, last_ingest, raw_tables, mmm_results, unified_daily_metrics, engine_run_metadata,
                   diagnostics_cache, pipeline_subscribers, last_mmm, report, pipe>>

RunAttributionWithDiagnostics(run_id, start, end, channel_weights, session_sequences, min_sequences, credit, fail) ==
    /\ AttributionCall("run_attribution_with_diagnostics", run_id, start, end,
                       channel_weights, session_sequences, min_sequences, credit, fail)
    /\ UNCHANGED <<copilot_tables, last_metrics, http, last_ingest, raw_tables, mmm_results, unified_daily_metrics, engine_run_metadata,
                   diagnostics_cache, pipeline_subscribers, last_mmm, report, pipe>>

\* ------------------------------------------------------------------------
\* Bounds and the values the tables are filled from
\* ------------------------------------------------------------------------
MaxDate == 2

MaxClickCalls == 1

\* Rows are dated on the first or the last day; a window is the first day, the
\* last day, or the whole range.
Dates == {1, MaxDate}

Windows == {<<1, 1>>, <<1, MaxDate>>, <<MaxDate, MaxDate>>}

\* click_id values: "c1", " c1 " (padded), " " (blank), "c2"
CidC1 == <<"c", "1">>

CidC1Padded == <<" ", "c", "1", " ">>

CidBlank == <<" ">>

CidC2 == <<"c", "2">>

OrderClickIds == {None, Some(CidBlank), Some(CidC1), Some(CidC1Padded), Some(CidC2)}

\* (revenue, net_revenue): no net revenue, a partial refund, a full refund
OrderAmounts == {<<10, None>>, <<10, Some(6)>>, <<10, Some(0)>>}

OrderRows(id) ==
    {[order_id |-> id, order_date |-> d, revenue |-> a[1], net_revenue |-> a[2],
      click_id |-> c] : d \in Dates, a \in OrderAmounts, c \in OrderClickIds}

\* An orders table with no row or with one row of the given order_id.
OrderTables(id) == {<<>>} \cup {<<o>> : o \in OrderRows(id)}

\* The columns raw_shopify_orders has and raw_woocommerce_orders has not.
ShopifyRow(o) ==
    o @@ [total_price |-> None, cancelled_at |-> None, financial_status |-> None]

ShopifyTables(id) == {<<>>} \cup {<<ShopifyRow(o)>> : o \in OrderRows(id)}

ClickRowMeta ==
    [click_id |-> CidC1, date |-> 1, campaign_id |-> "cmp_meta",
     campaign_name |-> Some("Meta Prospecting"), channel |-> "meta"]

ClickRowGoogle ==
    [click_id |-> CidC1, date |-> MaxDate, campaign_id |-> "cmp_google",
     campaign_name |-> None, channel |-> "google"]

\* raw_ad_clicks: empty, one click, or the same click_id recorded twice.
ClickTables ==
    {<<>>, <<ClickRowMeta>>, <<ClickRowGoogle>>, <<ClickRowMeta, ClickRowGoogle>>}

NoAds == [c \in ChannelSet |-> <<>>]

\* meta 600 and google 400 on day 1
AdsSixtyForty ==
    [c \in ChannelSet |->
        IF c = "meta" THEN <<[date |-> 1, campaign_id |-> "cmp_meta", spend |-> 600]>>
        ELSE IF c = "google" THEN <<[date |-> 1, campaign_id |-> "cmp_google", spend |-> 400]>>
        ELSE <<>>]

NoMmm == [status |-> "none"]

NoReport ==
    [status |-> "none", threshold |-> RZero, attr_rev |-> <<>>, contribution |-> <<>>,
     channels |-> {}, attribution_share |-> <<>>, mmm_share |-> <<>>,
     disagreement_score |-> RZero, instability_flagged |-> FALSE,
     call |-> [n |-> 0, args |-> <<>>, at |-> 0, prev_at |-> 0]]

\* No pipeline request yet.
NoPipe ==
    [pc |-> "idle", trigger |-> "none", seed |-> None, run_id |-> "", run_no |-> 0,
     stages |-> <<>>, raised |-> None, recorded |-> FALSE, notified |-> FALSE,
     response |-> 0, body |-> None]

\* No run_metrics call yet.
NoMetrics ==
    [n |-> 0, start |-> 0, end |-> 0, run_id |-> None, fail |-> FALSE, before |-> <<>>]

\* No run_ingest call yet.
NoIngest == [status |-> "none", files |-> None, runs |-> 0, first_net |-> <<>>]

\* No request handled yet.
NoHttp == [kind |-> "none"]

\* Both caches empty, as at import.
NoDiagnostics == [mta |-> None, mmm |-> None]

InitWith(shopify, woo, clicks, ads) ==
    /\ raw_shopify_orders \in shopify
    /\ raw_shopify_transactions = <<>>
    /\ ingest_audit = <<>>
    /\ raw_woocommerce_orders \in woo
    /\ raw_ad_clicks \in clicks
    /\ raw_ads \in ads
    /\ attribution_events = <<>>
    /\ mmm_results = <<>>
    /\ unified_daily_metrics = <<>>
    /\ engine_run_metadata = <<>>
    /\ diagnostics_cache = NoDiagnostics
    /\ pipeline_subscribers = <<>>
    /\ last_attr = NoAttr
    /\ last_mmm = NoMmm
    /\ report = NoReport
    /\ pipe = NoPipe
    /\ n_calls = 0
    /\ last_ingest = NoIngest
    /\ http = NoHttp
    /\ last_metrics = NoMetrics
    /\ copilot_sessions = <<>>
    /\ copilot_messages = <<>>

\* ------------------------------------------------------------------------
\* SpecClick: attribution calls with default arguments over varied orders
\* ------------------------------------------------------------------------
MinSequencesForMarkov == 10

DefaultCredit(start, end) ==
    CHOOSE c \in MarkovCreditChoices(RunChannels(DailySpendByChannel(start, end))) : TRUE

InitClick ==
    InitWith(ShopifyTables("ord_1"), OrderTables("wc_1"), ClickTables, {AdsSixtyForty})

ClickRunAttribution ==
    /\ n_calls < MaxClickCalls
    /\ \E w \in Windows :
          RunAttribution("run-default", w[1], w[2], None, None,
                         MinSequencesForMarkov, DefaultCredit(w[1], w[2]), "none")

ClickRunWithDiagnostics ==
    /\ n_calls < MaxClickCalls
    /\ \E w \in Windows :
          RunAttributionWithDiagnostics("run-default", w[1], w[2], None, None,
                         MinSequencesForMarkov, DefaultCredit(w[1], w[2]), "none")

NextClick == ClickRunAttribution \/ ClickRunWithDiagnostics

SpecClick == InitClick /\ [][NextClick]_vars

\* ------------------------------------------------------------------------
\* Claims about the click-ID pass and the hand-over to the fractional pass
\* ------------------------------------------------------------------------
AllOrders == Range(raw_shopify_orders) \cup Range(raw_woocommerce_orders)

\* The click rows an order's click_id resolves to in the window of the last call.
MatchingClicks(o) ==
    {i \in DOMAIN raw_ad_clicks :
        /\ InWindow(raw_ad_clicks[i].date, last_attr.start, last_attr.end)
        /\ o.click_id # None
        /\ raw_ad_clicks[i].click_id = Strip(Get(o.click_id))}

\* An in-window order with a non-blank click_id that matches a click of the
\* window and with revenue > 0.
Resolvable(o) ==
    /\ InWindow(o.order_date, last_attr.start, last_attr.end)
    /\ o.click_id # None
    /\ Strip(Get(o.click_id)) # <<>>
    /\ MatchingClicks(o) # {}
    /\ (IF o.net_revenue # None THEN Get(o.net_revenue) ELSE o.revenue) > 0

EventsFor(evs, id) == {i \in DOMAIN evs : evs[i].order_id = id}

\* C1: a successful call writes, for every resolvable order, exactly one click-ID
\* event for its order_id, with weight 1.0, the order's revenue (net when not
\* null, else gross) and the channel and campaign of a matching click; it writes
\* click-ID events for no other order, and all of them are committed.
C1_ClickIdEvents ==
    last_attr.status = "ok" =>
        LET evs == last_attr.click.events
        IN  /\ \A o \in AllOrders :
                  Resolvable(o) =>
                      /\ Cardinality(EventsFor(evs, o.order_id)) = 1
                      /\ \A i \in EventsFor(evs, o.order_id) :
                            /\ evs[i].weight = <<1, 1>>
                            /\ evs[i].allocated_revenue =
                                  <<IF o.net_revenue # None THEN Get(o.net_revenue)
                                    ELSE o.revenue, 1>>
                            /\ evs[i].run_id = last_attr.run_id
                            /\ evs[i].event_date = o.order_date
                            /\ \E k \in MatchingClicks(o) :
                                  /\ evs[i].channel = raw_ad_clicks[k].channel
                                  /\ evs[i].campaign_id = {raw_ad_clicks[k].campaign_id}
            /\ \A i \in DOMAIN evs :
                  \E o \in AllOrders : Resolvable(o) /\ o.order_id = evs[i].order_id
            /\ \A i \in DOMAIN evs :
                  \E j \in DOMAIN attribution_events : attribution_events[j] = evs[i]
            /\ last_attr.click.count = Len(evs)

\* A call attributed one order by click-ID and skipped another in-window order
\* that carries a click_id.
C1_Witness ==
    /\ last_attr.status = "ok"
    /\ last_attr.click.count >= 1
    /\ \E o \in AllOrders :
          /\ InWindow(o.order_date, last_attr.start, last_attr.end)
          /\ o.click_id # None
          /\ ~Resolvable(o)
    /\ \E o \in AllOrders : Resolvable(o) /\ o.click_id = Some(CidC1Padded)

InWindowIds ==
    {o.order_id : o \in {x \in AllOrders :
                            InWindow(x.order_date, last_attr.start, last_attr.end)}}

IdsOf(rows) == {rows[i].order_id : i \in DOMAIN rows}

\* C2: the orders fed to the fractional pass are exactly the in-window orders the
\* click-ID pass did not attribute: no order has both a click-ID event and
\* fractional events of the call, and every in-window order the click-ID pass
\* skipped is fed to the fractional pass, once.
C2_NoDoubleCredit ==
    last_attr.status = "ok" =>
        /\ IdsOf(last_attr.core.orders) = InWindowIds \ IdsOf(last_attr.click.events)
        /\ Len(last_attr.core.orders) = Cardinality(IdsOf(last_attr.core.orders))
        /\ IdsOf(last_attr.click.events) \cap IdsOf(last_attr.core.events) = {}
        /\ \A o \in AllOrders :
              (InWindow(o.order_date, last_attr.start, last_attr.end) /\ ~Resolvable(o))
                  => o.order_id \in IdsOf(last_attr.core.orders)
        /\ IdsOf(last_attr.core.events) = IdsOf(last_attr.core.orders)
        /\ last_attr.click.attributed = IdsOf(last_attr.click.events)

\* One order was credited by click-ID and another, whose click_id resolves to no
\* click, received fractional events.
C2_Witness ==
    /\ last_attr.status = "ok"
    /\ last_attr.click.count = 1
    /\ \E o \in AllOrders :
          /\ o.click_id = Some(CidC2)
          /\ o.order_id \in IdsOf(last_attr.core.events)

\* ------------------------------------------------------------------------
\* SpecRuns: repeated calls, reused run_ids and failing calls
\* ------------------------------------------------------------------------
MaxRunCalls == 2

\* run_id = f"run-{seed if seed is not None else 'default'}"
RunIds == {"run-default", "run-42"}

PlainOrder(id) ==
    [order_id |-> id, order_date |-> 1, revenue |-> 10, net_revenue |-> None,
     click_id |-> None]

RunsShopifyTables ==
    {<<ShopifyRow([PlainOrder("ord_1") EXCEPT !.net_revenue = a[2], !.click_id = c])>> :
        a \in OrderAmounts, c \in {None, Some(CidC1)}}

InitRuns ==
    InitWith(RunsShopifyTables, {<<>>, <<PlainOrder("wc_1")>>}, {<<ClickRowMeta>>},
             {NoAds, AdsSixtyForty})

RunsRunAttribution ==
    /\ n_calls < MaxRunCalls
    /\ \E rid \in RunIds, w \in Windows, fail \in FailPoints :
          RunAttribution(rid, w[1], w[2], None, None, MinSequencesForMarkov,
                         DefaultCredit(w[1], w[2]), fail)

NextRuns == RunsRunAttribution

SpecRuns == InitRuns /\ [][NextRuns]_vars

RECURSIVE SumField(_, _, _, _)
SumField(evs, id, rid, weights) ==
    IF evs = <<>> THEN RZero
    ELSE LET e == Head(evs)
             rest == SumField(Tail(evs), id, rid, weights)
         IN  IF e.order_id = id /\ e.run_id = rid
             THEN RAdd(IF weights THEN e.weight ELSE e.allocated_revenue, rest)
             ELSE rest

\* C3 as claimed: for every (order_id, run_id) present in attribution_events the
\* weights sum to 1.0 and the allocated revenue sums to the order's revenue.
C3_SumsPerOrderAndRun ==
    \A i \in DOMAIN attribution_events :
        LET e == attribution_events[i]
        IN  /\ SumField(attribution_events, e.order_id, e.run_id, TRUE) = ROne
            /\ \E o \in AllOrders :
                  /\ o.order_id = e.order_id
                  /\ SumField(attribution_events, e.order_id, e.run_id, FALSE)
                        = RInt(OrderRevenue(o))

\* C5 as claimed: a failed call leaves none of its events committed, and a call
\* that returns leaves all of them committed.
C5_AttributionAtomic ==
    /\ last_attr.status = "failed" => last_attr.committed = <<>>
    /\ last_attr.status = "ok" =>
          last_attr.committed = last_attr.click.events \o last_attr.core.events

\* ------------------------------------------------------------------------
\* SpecMarkov: calls with caller-supplied weights and session sequences
\* ------------------------------------------------------------------------
MaxMarkovCalls == 1

ExplicitWeights == [c \in ChannelSet |-> IF c = "meta" THEN R(1, 2) ELSE R(1, 6)]

Paths(n) == [i \in 1..n |-> <<"meta", "google">>]

SessionLengths ==
    {0, 1, 2, MinSequencesForMarkov - 1, MinSequencesForMarkov, MinSequencesForMarkov + 1}

SessionSequenceChoices == {None} \cup {Some(Paths(n)) : n \in SessionLengths}

MinSequenceChoices == {2, MinSequencesForMarkov}

InitMarkov ==
    InitWith({<<ShopifyRow(PlainOrder("ord_1"))>>}, {<<>>, <<PlainOrder("wc_1")>>}, {<<>>},
             {NoAds, AdsSixtyForty})

MarkovRunAttribution ==
    /\ n_calls < MaxMarkovCalls
    /\ \E cw \in {None, Some(ExplicitWeights)}, ss \in SessionSequenceChoices,
          ms \in MinSequenceChoices :
          \E credit \in MarkovCreditChoices(RunChannels(DailySpendByChannel(1, MaxDate))) :
             RunAttribution("run-default", 1, MaxDate, cw, ss, ms, credit, "none")

MarkovRunWithDiagnostics ==
    /\ n_calls < MaxMarkovCalls
    /\ \E cw \in {None, Some(ExplicitWeights)}, ss \in SessionSequenceChoices,
          ms \in MinSequenceChoices :
          \E credit \in MarkovCreditChoices(RunChannels(DailySpendByChannel(1, MaxDate))) :
             RunAttributionWithDiagnostics("run-default", 1, MaxDate, cw, ss, ms, credit,
                                           "none")

NextMarkov == MarkovRunAttribution \/ MarkovRunWithDiagnostics

SpecMarkov == InitMarkov /\ [][NextMarkov]_vars

\* The weights handed to fractional_allocate are the Markov credits.
MarkovActive == last_attr.core.weights = last_attr.credit

\* The paths of the last call: the session sequences when given, else one path
\* per order of the fractional pass.
PathCount ==
    IF last_attr.session_sequences # None THEN Len(Get(last_attr.session_sequences))
    ELSE Len(last_attr.core.orders)

MmmChannels(channels) == IF channels = None THEN DefaultChannels ELSE Get(channels)

\* X.size == 0 or rev.size == 0: pd.date_range(start, end) has no day, so the
\* spend matrix and the revenue vector have no row.
MmmDegenerate(start, end, chs) == end < start \/ Len(chs) = 0

\* What fit_pipeline hands back: a coefficient per channel name and r2.  The
\* regression is not computed here; `fit` is its output, chosen by the caller.
MmmCoefficient(fit, ch) ==
    IF ch \in DOMAIN fit.coefficients THEN fit.coefficients[ch] ELSE RZero

\* The MMMResults rows one call adds, one per requested channel.
MmmRows(run_id, chs, degenerate, fit, now) ==
    [i \in DOMAIN chs |->
        [run_id |-> run_id,
         channel |-> chs[i],
         coefficient |-> IF degenerate THEN RZero ELSE MmmCoefficient(fit, chs[i]),
         goodness_of_fit_r2 |-> IF degenerate THEN None ELSE fit.r2,
         created_at |-> now]]

\* Where a call can raise: nowhere, or before its single commit (a query, the
\* fit, the commit itself).  np.hstack raises on an empty channel list.
MmmFailPoints == {"none", "raise"}

MmmCall(run_id, start, end, channels, fit, fail) ==
    LET chs == MmmChannels(channels)
        degenerate == MmmDegenerate(start, end, chs)
        raised == fail # "none" \/ Len(chs) = 0
        rows == MmmRows(run_id, chs, degenerate, fit, n_calls + 1)
    IN  /\ mmm_results' = IF raised THEN mmm_results ELSE mmm_results \o rows
        /\ last_mmm' =
             [status |-> IF raised THEN "failed" ELSE "ok",
              run_id |-> run_id, start |-> start, end |-> end, channels |-> chs,
              degenerate |-> degenerate, fail |-> fail,
              rows |-> IF raised THEN <<>> ELSE rows,
              r2 |-> IF raised \/ degenerate THEN None ELSE fit.r2]
        /\ n_calls' = n_calls + 1

RunMmm(run_id, start, end, channels, fit, fail) ==
    /\ MmmCall(run_id, start, end, channels, fit, fail)
    /\ UNCHANGED <<copilot_tables, last_metrics, http, last_ingest, raw_tables, attribution_events, unified_daily_metrics,
                   engine_run_metadata, diagnostics_cache, pipeline_subscribers,
                   last_attr, report, pipe>>

\* Coefficients for meta and google, zero for the other channels.
Coefs(m, g) ==
    [c \in ChannelSet |-> IF c = "meta" THEN m ELSE IF c = "google" THEN g ELSE RZero]

Fit(m, g) == [coefficients |-> Coefs(m, g), r2 |-> Some(R(1, 2))]

\* ------------------------------------------------------------------------
\* SpecMmm: repeated run_mmm calls
\* ------------------------------------------------------------------------
MaxMmmCalls == 2

\* A window with days and one with none.
MmmWindows == {<<1, MaxDate>>, <<MaxDate, 1>>}

\* The default channels, one channel, and an empty channel list.
MmmChannelChoices == {None, Some(<<"meta">>), Some(<<>>)}

MmmFitChoices == {Fit(RInt(2), RInt(2)), Fit(RInt(1), RInt(-1))}

InitMmm ==
    InitWith({<<ShopifyRow(PlainOrder("ord_1"))>>}, {<<>>}, {<<>>}, {NoAds, AdsSixtyForty})

MmmRun ==
    /\ n_calls < MaxMmmCalls
    /\ \E rid \in RunIds, w \in MmmWindows, chs \in MmmChannelChoices,
          fit \in MmmFitChoices, fail \in MmmFailPoints :
          RunMmm(rid, w[1], w[2], chs, fit, fail)

NextMmm == MmmRun

SpecMmm == InitMmm /\ [][NextMmm]_vars

\* C4 as claimed, first half: mmm_results holds exactly one row per
\* (run_id, channel) present in it.
C4_OneRowPerRunAndChannel ==
    \A i \in DOMAIN mmm_results :
        Cardinality({j \in DOMAIN mmm_results :
                        /\ mmm_results[j].run_id = mmm_results[i].run_id
                        /\ mmm_results[j].channel = mmm_results[i].channel}) = 1

\* Second half of C4: a row, once written, is never changed or removed.
MmmRowsNeverChange ==
    [][\A i \in DOMAIN mmm_results :
          i \in DOMAIN mmm_results' /\ mmm_results'[i] = mmm_results[i]]_vars

\* The last call was given a degenerate input and nothing outside run_mmm (the
\* database) failed under it.
MmmDegenerateCall ==
    /\ last_mmm.status # "none"
    /\ last_mmm.degenerate
    /\ last_mmm.fail = "none"

\* The last call returned zero coefficients and r2 = None and added one
\* zero-coefficient row per requested channel.
MmmZeroOutcome ==
    /\ last_mmm.status = "ok"
    /\ last_mmm.r2 = None
    /\ Len(last_mmm.rows) = Len(last_mmm.channels)
    /\ Len(mmm_results) >= Len(last_mmm.rows)
    /\ \A i \in DOMAIN last_mmm.rows :
          /\ last_mmm.rows[i].channel = last_mmm.channels[i]
          /\ last_mmm.rows[i].coefficient = RZero
          /\ last_mmm.rows[i].goodness_of_fit_r2 = None
          /\ mmm_results[Len(mmm_results) - Len(last_mmm.rows) + i] = last_mmm.rows[i]

\* C12 as claimed: for every degenerate input (an empty date range or an empty
\* channel list) run_mmm does not raise, returns coefficient 0.0 for every
\* requested channel with r2 = None, and writes one zero-coefficient row per
\* requested channel.
C12_DegenerateNeverRaises == MmmDegenerateCall => MmmZeroOutcome

\* The part of C12 that holds: an empty date range with at least one requested
\* channel gives the zero outcome.
MmmEmptyWindowGivesZeroRows ==
    (MmmDegenerateCall /\ Len(last_mmm.channels) > 0) => MmmZeroOutcome

\* ------------------------------------------------------------------------
\* run_ingest: the CSV loaders and reconcile_orders
\* ------------------------------------------------------------------------
\* A CSV file is None when it does not exist, else the sequence of its rows; an
\* empty cell (NaN) is None.

\* _safe_float(x, default)
SafeFloat(x, default) == IF x # None THEN Get(x) ELSE default

\* pd.notna(cell) and str(cell).strip()
CellNonBlank(x) == x # None /\ Strip(Get(x)) # <<>>

\* str.lower() on the status and channel names that occur
Lower(s) ==
    CASE s = "SUCCESS" -> "success"
      [] s = "Refunded" -> "refunded"
      [] s = "Meta" -> "meta"
      [] OTHER -> s

\* The lowest index of a set of row indices: what .first() returns.
First(hits) == CHOOSE i \in hits : \A j \in hits : i <= j

\* One row of load_meta_ads and its three siblings: update the row with the
\* same (date, campaign_id), else insert.
UpsertAd(tbl, row) ==
    LET hits == {i \in DOMAIN tbl :
                    tbl[i].date = row.date /\ tbl[i].campaign_id = row.campaign_id}
    IN  IF hits # {} THEN [tbl EXCEPT ![First(hits)].spend = row.spend]
        ELSE Append(tbl, [date |-> row.date, campaign_id |-> row.campaign_id,
                          spend |-> row.spend])

RECURSIVE LoadAds(_, _)
LoadAds(tbl, rows) ==
    IF rows = <<>> THEN tbl ELSE LoadAds(UpsertAd(tbl, Head(rows)), Tail(rows))

\* One row of load_shopify_orders.
UpsertShopifyOrder(tbl, row) ==
    LET hits == {i \in DOMAIN tbl : tbl[i].order_id = row.order_id}
        total_price == SafeFloat(row.total_price, row.revenue)
    IN  IF hits # {}
        THEN LET e == tbl[First(hits)]
             IN  [tbl EXCEPT ![First(hits)] =
                    [order_id |-> e.order_id,
                     order_date |-> row.order_date,
                     revenue |-> row.revenue,
                     cancelled_at |-> IF row.cancelled_at # None THEN row.cancelled_at
                                      ELSE e.cancelled_at,
                     financial_status |-> IF row.financial_status # None
                                          THEN row.financial_status
                                          ELSE e.financial_status,
                     total_price |-> IF SafeFloat(row.total_price, 0) # 0
                                     THEN row.total_price ELSE e.total_price,
                     net_revenue |-> IF SafeFloat(row.net_revenue, 0) # 0
                                     THEN row.net_revenue ELSE Some(total_price),
                     click_id |-> IF CellNonBlank(row.click_id) THEN row.click_id
                                  ELSE e.click_id]]
        ELSE Append(tbl,
                    [order_id |-> row.order_id,
                     order_date |-> row.order_date,
                     revenue |-> row.revenue,
                     cancelled_at |-> row.cancelled_at,
                     financial_status |-> row.financial_status,
                     total_price |-> row.total_price,
                     net_revenue |-> IF row.net_revenue # None THEN row.net_revenue
                                     ELSE Some(total_price),
                     click_id |-> IF CellNonBlank(row.click_id) THEN row.click_id
                                  ELSE None])

RECURSIVE LoadShopifyOrders(_, _)
LoadShopifyOrders(tbl, rows) ==
    IF rows = <<>> THEN tbl
    ELSE LoadShopifyOrders(UpsertShopifyOrder(tbl, Head(rows)), Tail(rows))

\* One row of load_shopify_transactions: skipped when its order is unknown,
\* else inserted with the order's primary key (its position in the table).
AddTransaction(txs, orders, row) ==
    LET hits == {i \in DOMAIN orders : orders[i].order_id = row.order_id}
    IN  IF hits = {} THEN txs
        ELSE Append(txs, [order_id |-> First(hits), kind |-> row.kind,
                          status |-> row.status, amount |-> SafeFloat(row.amount, 0)])

RECURSIVE LoadShopifyTransactions(_, _, _)
LoadShopifyTransactions(txs, orders, rows) ==
    IF rows = <<>> THEN txs
    ELSE LoadShopifyTransactions(AddTransaction(txs, orders, Head(rows)), orders, Tail(rows))

\* One row of load_woocommerce_orders.
UpsertWooCommerceOrder(tbl, row) ==
    LET hits == {i \in DOMAIN tbl : tbl[i].order_id = row.order_id}
        net == SafeFloat(row.net_revenue, row.revenue)
    IN  IF hits # {}
        THEN [tbl EXCEPT ![First(hits)] =
                [order_id |-> tbl[First(hits)].order_id,
                 order_date |-> row.order_date,
                 revenue |-> row.revenue,
                 net_revenue |-> Some(net),
                 click_id |-> IF CellNonBlank(row.click_id) THEN row.click_id
                              ELSE tbl[First(hits)].click_id]]
        ELSE Append(tbl,
                    [order_id |-> row.order_id,
                     order_date |-> row.order_date,
                     revenue |-> row.revenue,
                     net_revenue |-> Some(net),
                     click_id |-> IF CellNonBlank(row.click_id) THEN row.click_id
                                  ELSE None])

RECURSIVE LoadWooCommerceOrders(_, _)
LoadWooCommerceOrders(tbl, rows) ==
    IF rows = <<>> THEN tbl
    ELSE LoadWooCommerceOrders(UpsertWooCommerceOrder(tbl, Head(rows)), Tail(rows))

\* load_ad_clicks: every CSV row is inserted.
RECURSIVE LoadAdClicks(_, _)
LoadAdClicks(tbl, rows) ==
    IF rows = <<>> THEN tbl
    ELSE LoadAdClicks(Append(tbl, [Head(rows) EXCEPT !.channel = Lower(@)]), Tail(rows))

\* (t.status or "").lower() == v, and the same test on financial_status
StatusIs(status, v) == status # None /\ Lower(Get(status)) = v

\* sum of t.amount over the successful sale / capture transactions
RECURSIVE Sales(_)
Sales(tx_list) ==
    IF tx_list = <<>> THEN 0
    ELSE (IF Head(tx_list).kind \in {"sale", "capture"} /\ StatusIs(Head(tx_list).status, "success")
          THEN Head(tx_list).amount ELSE 0) + Sales(Tail(tx_list))

\* sum of abs(t.amount) over the successful refund transactions
RECURSIVE Refunds(_)
Refunds(tx_list) ==
    IF tx_list = <<>> THEN 0
    ELSE (IF Head(tx_list).kind = "refund" /\ StatusIs(Head(tx_list).status, "success")
          THEN Abs(Head(tx_list).amount) ELSE 0) + Refunds(Tail(tx_list))

ComputedNet(o, tx_list) ==
    IF o.cancelled_at # None THEN 0
    ELSE IF tx_list = <<>> /\ (StatusIs(o.financial_status, "refunded")
                               \/ StatusIs(o.financial_status, "voided")) THEN 0
    ELSE Sales(tx_list) - Refunds(tx_list)

\* order.net_revenue or order.total_price or order.revenue
KeptNet(o) ==
    IF o.net_revenue # None /\ Get(o.net_revenue) # 0 THEN Get(o.net_revenue)
    ELSE IF o.total_price # None /\ Get(o.total_price) # 0 THEN Get(o.total_price)
    ELSE o.revenue

\* The net_revenue reconcile_orders writes on the order with primary key i.
ReconciledNet(orders, txs, i) ==
    LET tx_list == SelectSeq(txs, LAMBDA t : t.order_id = i)
    IN  IF tx_list # <<>> THEN ComputedNet(orders[i], tx_list) ELSE KeptNet(orders[i])

ReconcileOrders(orders, txs) ==
    [i \in DOMAIN orders |->
        [orders[i] EXCEPT !.net_revenue = Some(ReconciledNet(orders, txs, i))]]

AuditNote(o, tx_list) ==
    IF tx_list = <<>> THEN "no_transactions"
    ELSE IF Refunds(tx_list) # 0 THEN "refunds"
    ELSE IF o.cancelled_at # None THEN "cancelled"
    ELSE "tx_reconcile"

\* The ingest_audit rows reconcile_orders inserts, one per order.
AuditRows(orders, txs) ==
    [i \in DOMAIN orders |->
        [order_id |-> orders[i].order_id,
         computed_net_revenue |-> ReconciledNet(orders, txs, i),
         diff |-> IF orders[i].net_revenue # None
                  THEN Some(ReconciledNet(orders, txs, i) - Get(orders[i].net_revenue))
                  ELSE None,
         note |-> AuditNote(orders[i], SelectSeq(txs, LAMBDA t : t.order_id = i))]]

\* The nine calls of run_ingest, in order; each commits its own work.
IngestSteps ==
    <<"meta_ads", "google_ads", "bing_ads", "pinterest_ads", "shopify_orders",
      "shopify_transactions", "woocommerce_orders", "ad_clicks", "reconciled_orders">>

\* The net_revenue column of the two order tables.
NetRevenues(shopify, woo) ==
    <<[i \in DOMAIN shopify |-> shopify[i].net_revenue],
      [i \in DOMAIN woo |-> woo[i].net_revenue]>>

\* What is remembered of a run_ingest call: the files it read, how many calls in
\* a row have completed over these same files, and the net_revenue columns as
\* the first of them left them.
IngestRecord(files, fail_at, shopify, woo) ==
    LET again == last_ingest.status = "ok" /\ last_ingest.files = Some(files)
    IN  IF fail_at # 0
        THEN [status |-> "failed", files |-> Some(files), runs |-> 0, first_net |-> <<>>]
        ELSE [status |-> "ok", files |-> Some(files),
              runs |-> IF again THEN last_ingest.runs + 1 ELSE 1,
              first_net |-> IF again THEN last_ingest.first_net
                            ELSE NetRevenues(shopify, woo)]

\* run_ingest that raises in its fail_at-th call (0: in none): the calls before
\* it are committed, that call and the ones after it change nothing.
IngestCall(files, fail_at) ==
    LET Done(k) == fail_at = 0 \/ k < fail_at
        AdStep(c) == CHOOSE k \in 1..4 : DefaultChannels[k] = c
        ads == [c \in ChannelSet |->
                   IF Done(AdStep(c)) /\ files.ads[c] # None
                   THEN LoadAds(raw_ads[c], Get(files.ads[c])) ELSE raw_ads[c]]
        shop == IF Done(5) /\ files.shopify_orders # None
                THEN LoadShopifyOrders(raw_shopify_orders, Get(files.shopify_orders))
                ELSE raw_shopify_orders
        txs == IF Done(6) /\ files.shopify_transactions # None
               THEN LoadShopifyTransactions(raw_shopify_transactions, shop,
                                            Get(files.shopify_transactions))
               ELSE raw_shopify_transactions
        woo == IF Done(7) /\ files.woocommerce_orders # None
               THEN LoadWooCommerceOrders(raw_woocommerce_orders,
                                          Get(files.woocommerce_orders))
               ELSE raw_woocommerce_orders
        clicks == IF Done(8) /\ files.ad_clicks # None
                  THEN LoadAdClicks(raw_ad_clicks, Get(files.ad_clicks))
                  ELSE raw_ad_clicks
    IN  /\ raw_ads' = ads
        /\ raw_shopify_transactions' = txs
        /\ raw_woocommerce_orders' = woo
        /\ raw_ad_clicks' = clicks
        /\ raw_shopify_orders' = IF Done(9) THEN ReconcileOrders(shop, txs) ELSE shop
        /\ ingest_audit' = IF Done(9) THEN ingest_audit \o AuditRows(shop, txs)
                           ELSE ingest_audit
        /\ last_ingest' = IngestRecord(files, fail_at, ReconcileOrders(shop, txs), woo)

\* ------------------------------------------------------------------------
\* run_metrics
\* ------------------------------------------------------------------------
\* pandas sorts the keys of the outer merge: by date, then by channel name.
ChannelsByName == <<"bing", "google", "meta", "pinterest">>

RECURSIVE SortedDates(_)
SortedDates(S) ==
    IF S = {} THEN <<>>
    ELSE LET d == CHOOSE x \in S : \A y \in S : x <= y IN <<d>> \o SortedDates(S \ {d})

\* attributed revenue of one (date, channel) under the run filter `if run_id:`
RECURSIVE AttributedRevenue(_, _, _, _)
AttributedRevenue(evs, d, ch, run_id) ==
    IF evs = <<>> THEN RZero
    ELSE LET e == Head(evs)
             rest == AttributedRevenue(Tail(evs), d, ch, run_id)
         IN  IF /\ e.event_date = d
                /\ e.channel = ch
                /\ (run_id = None \/ Get(run_id) = "" \/ e.run_id = Get(run_id))
             THEN RAdd(e.allocated_revenue, rest) ELSE rest

\* compute_unified_metrics: one record per (date, channel) that has spend rows
\* or attribution events in the window.
MetricKeys(start, end, run_id) ==
    {<<r.date, r.channel>> : r \in Range(DailySpendByChannel(start, end))}
    \cup {<<e.event_date, e.channel>> :
             e \in {x \in Range(attribution_events) :
                       /\ InWindow(x.event_date, start, end)
                       /\ (run_id = None \/ Get(run_id) = "" \/ x.run_id = Get(run_id))}}

MetricRecord(d, ch, start, end, run_id) ==
    LET day == SelectSeq(DailySpendByChannel(start, end), LAMBDA r : r.date = d)
        spend == SpendTotal(day, ch)
        attr_rev == AttributedRevenue(attribution_events, d, ch, run_id)
    IN  [date |-> d, channel |-> ch, spend |-> spend, attributed_revenue |-> attr_rev,
         roas |-> IF spend > 0 THEN Some(RDiv(attr_rev, RInt(spend))) ELSE None,
         mer |-> IF spend > 0 THEN Some(RDiv(attr_rev, RInt(spend))) ELSE None,
         cac |-> IF RLt(RZero, attr_rev) THEN Some(spend) ELSE None]

RECURSIVE MetricRecords(_, _, _, _, _)
MetricRecords(keys, start, end, run_id, dates) ==
    IF dates = <<>> THEN <<>>
    ELSE LET chs == SelectSeq(ChannelsByName, LAMBDA c : <<Head(dates), c>> \in keys)
         IN  [i \in DOMAIN chs |-> MetricRecord(Head(dates), chs[i], start, end, run_id)]
             \o MetricRecords(keys, start, end, run_id, Tail(dates))

ComputeUnifiedMetrics(start, end, run_id) ==
    LET keys == MetricKeys(start, end, run_id)
    IN  MetricRecords(keys, start, end, run_id, SortedDates({k[1] : k \in keys}))

\* What is remembered of a run_metrics call: its window and the table it found.
MetricsRecord(start, end, run_id, fail) ==
    [n |-> last_metrics.n + 1, start |-> start, end |-> end, run_id |-> run_id,
     fail |-> fail, before |-> unified_daily_metrics]

\* A run_metrics that inserts its records without deleting first.
MetricsCallWithoutDelete(start, end, run_id, fail) ==
    /\ unified_daily_metrics' =
          IF fail THEN unified_daily_metrics
          ELSE unified_daily_metrics \o ComputeUnifiedMetrics(start, end, run_id)
    /\ last_metrics' = MetricsRecord(start, end, run_id, fail)

\* run_metrics: delete the rows dated in the window, insert the records, commit.
MetricsCall(start, end, run_id, fail) ==
    /\ unified_daily_metrics' =
          IF fail THEN unified_daily_metrics
          ELSE SelectSeq(unified_daily_metrics, LAMBDA r : ~InWindow(r.date, start, end))
               \o ComputeUnifiedMetrics(start, end, run_id)
    /\ last_metrics' = MetricsRecord(start, end, run_id, fail)

\* ------------------------------------------------------------------------
\* The pipeline: _run_pipeline, _run_pipeline_v1 and their four callers
\* ------------------------------------------------------------------------
\* POST /run, POST /run/sync, POST /api/v1/engine/run, the interval scheduler
Triggers == {"trigger_run", "trigger_run_sync", "v1_engine_run", "scheduled_pipeline"}

\* A run_id that does not take the seed in.
RunIdIgnoringSeed(seed) == "run-" \o "default"

\* run_id = f"run-{seed if seed is not None else 'default'}"
RunIdOf(seed) == "run-" \o (IF seed = None THEN "default" ELSE ToString(Get(seed)))

\* No seed, and the seeds 0 and 42.
Seeds == {None, Some(0), Some(42)}

Stages == <<"ingest", "attribution", "mmm", "metrics", "rules", "record_run">>

\* The stage after the one just completed.
NextStage(stage) ==
    LET k == CHOOSE i \in DOMAIN Stages : Stages[i] = stage
    IN  IF k < Len(Stages) THEN Stages[k + 1] ELSE "respond"

\* A pipeline function that catches what a stage raises and carries on.
AdvanceSwallowing(ok) ==
    [pipe EXCEPT !.pc = NextStage(pipe.pc), !.stages = IF ok THEN Append(@, pipe.pc) ELSE @]

\* The pipeline function after the stage at pipe.pc returned or raised.
Advance(ok) ==
    IF ok THEN [pipe EXCEPT !.pc = NextStage(pipe.pc), !.stages = Append(@, pipe.pc)]
    ELSE [pipe EXCEPT !.pc = "raised", !.raised = Some(pipe.pc)]

\* start = date.today() - timedelta(days=365); end = date.today()
PipelineStart == 1

PipelineEnd == MaxDate

\* A request arrives (or the scheduler fires) and the pipeline function is entered.
StartPipeline(trigger, seed, max_runs) ==
    /\ pipe.pc \in {"idle", "done"}
    /\ pipe.run_no < max_runs
    /\ pipe' = [NoPipe EXCEPT !.pc = "ingest", !.trigger = trigger,
                              !.seed = IF trigger = "scheduled_pipeline" THEN None ELSE seed,
                              !.run_id = RunIdOf(IF trigger = "scheduled_pipeline"
                                                 THEN None ELSE seed),
                              !.run_no = pipe.run_no + 1]
    /\ UNCHANGED <<copilot_tables, last_metrics, http, last_ingest, raw_tables, attribution_events, mmm_results, unified_daily_metrics,
                   engine_run_metadata, diagnostics_cache, pipeline_subscribers,
                   last_attr, last_mmm, report, n_calls>>

StageIngest(files, fail_at) ==
    /\ pipe.pc = "ingest"
    /\ IngestCall(files, fail_at)
    /\ pipe' = Advance(fail_at = 0)
    /\ UNCHANGED <<copilot_tables, last_metrics, http, attribution_events, mmm_results, unified_daily_metrics,
                   engine_run_metadata, diagnostics_cache, pipeline_subscribers,
                   last_attr, last_mmm, report, n_calls>>

\* run_attribution, or run_attribution_with_diagnostics followed by the refresh
\* of _last_mta_diagnostics, under the v1 trigger.
StageAttribution(fail) ==
    /\ pipe.pc = "attribution"
    /\ AttributionCall(IF pipe.trigger = "v1_engine_run"
                       THEN "run_attribution_with_diagnostics" ELSE "run_attribution",
                       pipe.run_id, PipelineStart, PipelineEnd, None, None,
                       MinSequencesForMarkov, DefaultCredit(PipelineStart, PipelineEnd), fail)
    /\ diagnostics_cache' =
          IF pipe.trigger = "v1_engine_run" /\ fail = "none"
          THEN [diagnostics_cache EXCEPT !.mta = Some(pipe.run_no)]
          ELSE diagnostics_cache
    /\ pipe' = Advance(fail = "none")
    /\ UNCHANGED <<copilot_tables, last_metrics, http, last_ingest, raw_tables, mmm_results, unified_daily_metrics, engine_run_metadata,
                   pipeline_subscribers, last_mmm, report>>

StageMmm(fit, fail) ==
    /\ pipe.pc = "mmm"
    /\ MmmCall(pipe.run_id, PipelineStart, PipelineEnd, None, fit, fail)
    /\ diagnostics_cache' =
          IF pipe.trigger = "v1_engine_run" /\ fail = "none"
          THEN [diagnostics_cache EXCEPT !.mmm = Some(pipe.run_no)]
          ELSE diagnostics_cache
    /\ pipe' = Advance(fail = "none")
    /\ UNCHANGED <<copilot_tables, last_metrics, http, last_ingest, raw_tables, attribution_events, unified_daily_metrics,
                   engine_run_metadata, pipeline_subscribers, last_attr, report>>

StageMetrics(fail) ==
    /\ pipe.pc = "metrics"
    /\ MetricsCall(PipelineStart, PipelineEnd, Some(pipe.run_id), fail)
    /\ pipe' = Advance(~fail)
    /\ UNCHANGED <<copilot_tables, http, last_ingest, raw_tables, attribution_events, mmm_results, engine_run_metadata,
                   diagnostics_cache, pipeline_subscribers, last_attr, last_mmm, report,
                   n_calls>>

\* run_rules returns or raises; the decisions it stores are not among the tables here.
StageRules(fail) ==
    /\ pipe.pc = "rules"
    /\ pipe' = Advance(~fail)
    /\ UNCHANGED <<copilot_tables, last_metrics, http, last_ingest, raw_tables, attribution_events, mmm_results, unified_daily_metrics,
                   engine_run_metadata, diagnostics_cache, pipeline_subscribers,
                   last_attr, last_mmm, report, n_calls>>

\* record_run(run_id): one engine_run_metadata row, in a session of its own.
\* Requests are numbered in the order they start; the number stands for utcnow().
StageRecordRun(fail) ==
    /\ pipe.pc = "record_run"
    /\ engine_run_metadata' =
          IF fail THEN engine_run_metadata
          ELSE Append(engine_run_metadata,
                      [run_id |-> pipe.run_id, timestamp |-> pipe.run_no])
    /\ pipe' = [Advance(~fail) EXCEPT !.recorded = ~fail]
    /\ UNCHANGED <<copilot_tables, last_metrics, http, last_ingest, raw_tables, attribution_events, mmm_results, unified_daily_metrics,
                   diagnostics_cache, pipeline_subscribers, last_attr, last_mmm, report,
                   n_calls>>

\* _notify_pipeline_finished: the message is put on every subscriber's queue.
Notify(run_id) ==
    [i \in DOMAIN pipeline_subscribers |->
        Append(pipeline_subscribers[i], [event |-> "pipeline_finished", run_id |-> run_id])]

\* The pipeline function returned run_id: the caller notifies (all but POST /run)
\* and answers with the run_id and its status word (the v1 envelope's is "success").
Respond ==
    /\ pipe.pc = "respond"
    /\ pipeline_subscribers' =
          IF pipe.trigger = "trigger_run" THEN pipeline_subscribers ELSE Notify(pipe.run_id)
    /\ pipe' = [pipe EXCEPT !.pc = "done",
                            !.notified = pipe.trigger # "trigger_run",
                            !.response = CASE pipe.trigger = "trigger_run" -> 202
                                           [] pipe.trigger = "scheduled_pipeline" -> 0
                                           [] OTHER -> 200,
                            !.body =
                                CASE pipe.trigger = "trigger_run" ->
                                        Some([run_id |-> pipe.run_id, status |-> "accepted"])
                                  [] pipe.trigger = "trigger_run_sync" ->
                                        Some([run_id |-> pipe.run_id, status |-> "completed"])
                                  [] pipe.trigger = "v1_engine_run" ->
                                        Some([run_id |-> pipe.run_id, status |-> "success"])
                                  [] OTHER -> None]
    /\ UNCHANGED <<copilot_tables, last_metrics, http, last_ingest, raw_tables, attribution_events, mmm_results, unified_daily_metrics,
                   engine_run_metadata, diagnostics_cache, last_attr, last_mmm, report,
                   n_calls>>

\* The pipeline function raised: POST /run and POST /run/sync let the exception
\* through (500), v1 answers a 500 envelope, the scheduler swallows it.
Raised ==
    /\ pipe.pc = "raised"
    /\ pipe' = [pipe EXCEPT !.pc = "done",
                            !.response = IF pipe.trigger = "scheduled_pipeline" THEN 0
                                         ELSE 500]
    /\ UNCHANGED <<copilot_tables, last_metrics, http, last_ingest, raw_tables, attribution_events, mmm_results, unified_daily_metrics,
                   engine_run_metadata, diagnostics_cache, pipeline_subscribers,
                   last_attr, last_mmm, report, n_calls>>

\* ------------------------------------------------------------------------
\* SpecPipeline: pipeline requests over an initially empty database
\* ------------------------------------------------------------------------
MaxPipelineRuns == 2

\* data/raw without any CSV file
EmptyDir ==
    [ads |-> [c \in ChannelSet |-> None], shopify_orders |-> None,
     shopify_transactions |-> None, woocommerce_orders |-> None, ad_clicks |-> None]

\* data/raw with meta and google spend, one Shopify order that carries a click_id
\* and has a sale and a partial refund, one WooCommerce order, and one ad click
SampleDir ==
    [ads |-> [c \in ChannelSet |-> IF AdsSixtyForty[c] = <<>> THEN None
                                   ELSE Some(AdsSixtyForty[c])],
     shopify_orders |->
        Some(<<[order_id |-> "ord_1", order_date |-> 1, revenue |-> 10,
                total_price |-> Some(10), net_revenue |-> None, click_id |-> Some(CidC1),
                cancelled_at |-> None, financial_status |-> Some("paid")]>>),
     shopify_transactions |->
        Some(<<[order_id |-> "ord_1", kind |-> "sale", status |-> Some("success"),
                amount |-> Some(10)],
               [order_id |-> "ord_1", kind |-> "refund", status |-> Some("SUCCESS"),
                amount |-> Some(4)]>>),
     woocommerce_orders |->
        Some(<<[order_id |-> "wc_1", order_date |-> MaxDate, revenue |-> 10,
                net_revenue |-> None, click_id |-> Some(CidBlank)]>>),
     ad_clicks |->
        Some(<<[click_id |-> CidC1, date |-> 1, campaign_id |-> "cmp_meta",
                campaign_name |-> Some("Meta Prospecting"), channel |-> "Meta"]>>)]

DataDirs == {EmptyDir, SampleDir}

\* run_ingest raises in none of its calls, in the first, or in the last.
PipelineIngestFailures == {0, 1, Len(IngestSteps)}

InitPipeline ==
    /\ raw_shopify_orders = <<>>
    /\ raw_shopify_transactions = <<>>
    /\ raw_woocommerce_orders = <<>>
    /\ raw_ad_clicks = <<>>
    /\ raw_ads = NoAds
    /\ ingest_audit = <<>>
    /\ attribution_events = <<>>
    /\ mmm_results = <<>>
    /\ unified_daily_metrics = <<>>
    /\ engine_run_metadata = <<>>
    /\ diagnostics_cache = NoDiagnostics
    /\ pipeline_subscribers \in {<<>>, << <<>> >>}
    /\ last_attr = NoAttr
    /\ last_mmm = NoMmm
    /\ report = NoReport
    /\ pipe = NoPipe
    /\ n_calls = 0
    /\ last_ingest = NoIngest
    /\ http = NoHttp
    /\ last_metrics = NoMetrics
    /\ copilot_sessions = <<>>
    /\ copilot_messages = <<>>

PipelineRequest ==
    \E trigger \in Triggers, seed \in Seeds : StartPipeline(trigger, seed, MaxPipelineRuns)

PipelineIngest ==
    \E files \in DataDirs, fail_at \in PipelineIngestFailures : StageIngest(files, fail_at)

PipelineAttribution == \E fail \in FailPoints : StageAttribution(fail)

PipelineMmm == \E fail \in MmmFailPoints : StageMmm(Fit(RInt(2), RInt(2)), fail)

PipelineMetrics == \E fail \in BOOLEAN : StageMetrics(fail)

PipelineRules == \E fail \in BOOLEAN : StageRules(fail)

PipelineRecordRun == \E fail \in BOOLEAN : StageRecordRun(fail)

NextPipeline ==
    \/ PipelineRequest
    \/ PipelineIngest
    \/ PipelineAttribution
    \/ PipelineMmm
    \/ PipelineMetrics
    \/ PipelineRules
    \/ PipelineRecordRun
    \/ Respond
    \/ Raised

SpecPipeline == InitPipeline /\ [][NextPipeline]_vars

\* The five stages that precede record_run, in pipeline order.
WorkStages == SubSeq(Stages, 1, 5)

\* engine_run_metadata holds a row written by the current request.
RunRecorded == \E i \in DOMAIN engine_run_metadata : engine_run_metadata[i].timestamp = pipe.run_no

\* Some subscriber queue grows in this step.
QueueGrows ==
    \E i \in DOMAIN pipeline_subscribers :
        Len(pipeline_subscribers'[i]) > Len(pipeline_subscribers[i])

\* C6: record_run writes the request's engine_run_metadata row, and
\* pipeline_finished is put on the subscriber queues, only after ingest,
\* attribution, MMM, metrics and rules completed without error in that order
\* (attribution and MMM having committed under the request's run_id); a stage
\* that raises ends the pipeline function at once: no later stage runs, no run
\* record is written for the request, nothing is notified, and the request is
\* not answered 200 or 202.
C6_SuccessOnlyAfterAllStages ==
    /\ [](/\ RunRecorded <=> pipe.recorded
          /\ pipe.recorded =>
                /\ pipe.stages = Stages
                /\ pipe.raised = None
                /\ last_attr.status = "ok" /\ last_attr.run_id = pipe.run_id
                /\ last_mmm.status = "ok" /\ last_mmm.run_id = pipe.run_id
          /\ pipe.notified => pipe.recorded
          /\ \A k \in DOMAIN pipe.stages : pipe.stages[k] = Stages[k]
          /\ pipe.raised # None =>
                /\ pipe.pc \in {"raised", "done"}
                /\ ~pipe.recorded /\ ~pipe.notified
                /\ pipe.stages = SubSeq(Stages, 1, Len(pipe.stages))
                /\ Get(pipe.raised) = Stages[Len(pipe.stages) + 1]
                /\ pipe.response \in {0, 500}
          /\ pipe.response \in {200, 202} => pipe.recorded)
    /\ [][/\ engine_run_metadata' # engine_run_metadata =>
                /\ pipe.stages = WorkStages
                /\ pipe.raised = None
                /\ engine_run_metadata' =
                      Append(engine_run_metadata,
                             [run_id |-> pipe.run_id, timestamp |-> pipe.run_no])
          /\ QueueGrows => pipe.recorded /\ pipe.stages = Stages
          /\ (pipe.pc = "raised" /\ pipe.trigger # "scheduled_pipeline")
                => pipe'.response = 500]_vars

\* The second request ran all its stages, was recorded and notified a
\* subscriber, after a first request that raised and left no run record.
C6_Witness ==
    /\ pipe.pc = "done"
    /\ pipe.run_no = 2
    /\ pipe.recorded /\ pipe.notified
    /\ pipe.stages = Stages
    /\ Len(engine_run_metadata) = 1
    /\ engine_run_metadata[1].timestamp = 2
    /\ \E i \in DOMAIN pipeline_subscribers :
          pipeline_subscribers[i] = <<[event |-> "pipeline_finished", run_id |-> pipe.run_id]>>
    /\ attribution_events # <<>>

\* The request is answered and its run was recorded.
RunCompleted == pipe.pc = "done" /\ pipe.recorded

\* C16 as claimed: once a run has completed, through any trigger, the queue of
\* every connected SSE subscriber holds one pipeline_finished event per
\* completed run, the last of them carrying this run's run_id.
C16_EverySubscriberNotified ==
    RunCompleted =>
        \A i \in DOMAIN pipeline_subscribers :
            /\ Len(pipeline_subscribers[i]) = Len(engine_run_metadata)
            /\ pipeline_subscribers[i][Len(pipeline_subscribers[i])] =
                  [event |-> "pipeline_finished", run_id |-> pipe.run_id]

\* The part of C16 that holds: a run completed through POST /run/sync, POST
\* /api/v1/engine/run or the scheduler has put its event, last, on every queue.
NotifyingTriggersNotify ==
    (RunCompleted /\ pipe.trigger # "trigger_run") =>
        \A i \in DOMAIN pipeline_subscribers :
            /\ pipeline_subscribers[i] # <<>>
            /\ pipeline_subscribers[i][Len(pipeline_subscribers[i])] =
                  [event |-> "pipeline_finished", run_id |-> pipe.run_id]

\* ------------------------------------------------------------------------
\* build_attribution_mmm_report
\* ------------------------------------------------------------------------
\* INSTABILITY_THRESHOLD = 0.25
InstabilityThreshold == R(1, 4)

\* The attribution events of the window that pass the run filter `if run_id:`.
ReportEvents(start, end, run_id) ==
    SelectSeq(attribution_events,
              LAMBDA e : /\ InWindow(e.event_date, start, end)
                         /\ (run_id = None \/ Get(run_id) = "" \/ e.run_id = Get(run_id)))

RECURSIVE ChannelRevenue(_, _)
ChannelRevenue(evs, ch) ==
    IF evs = <<>> THEN RZero
    ELSE RAdd(IF Head(evs).channel = ch THEN Head(evs).allocated_revenue ELSE RZero,
              ChannelRevenue(Tail(evs), ch))

\* _attribution_revenue_by_channel: a dict keyed by the channels of those events
AttributionRevenueByChannel(start, end, run_id) ==
    LET evs == ReportEvents(start, end, run_id)
    IN  [c \in {evs[i].channel : i \in DOMAIN evs} |-> ChannelRevenue(evs, c)]

\* _spend_by_channel followed by .get(ch, 0.0)
SpendByChannel(start, end, ch) == SpendTotal(DailySpendByChannel(start, end), ch)

\* _response_single_channel(spend, half_life): the saturation response curve, 0
\* at no spend, increasing and concave.  The curve itself is not computed here;
\* this is a stand-in with those properties on the spends that occur.
Response(spend) ==
    IF spend <= 400 THEN R(spend, 200) ELSE RAdd(RInt(2), R(spend - 400, 400))

\* The MMMResults rows that pass the run filter `if mmm_run_id:`.
ReportMmmRows(run_id) ==
    SelectSeq(mmm_results,
              LAMBDA r : run_id = None \/ Get(run_id) = "" \/ r.run_id = Get(run_id))

\* by_channel: for each channel the coefficient of its latest row (created_at desc).
LatestCoefficient(rows, ch) ==
    LET mine == {i \in DOMAIN rows : rows[i].channel = ch}
        last == CHOOSE i \in mine : \A j \in mine : rows[j].created_at <= rows[i].created_at
    IN  rows[last].coefficient

\* contribution[ch] = coef * resp
MmmContribution(start, end, run_id) ==
    LET rows == ReportMmmRows(run_id)
    IN  [c \in {rows[i].channel : i \in DOMAIN rows} |->
            RMul(LatestCoefficient(rows, c), Response(SpendByChannel(start, end, c)))]

\* sum(d.values()) or 1.0
TotalOr1(d) == IF RSumOver(d, DOMAIN d) = RZero THEN ROne ELSE RSumOver(d, DOMAIN d)

\* {ch: v / total for ch, v in d.items()}
Shares(d) == [c \in DOMAIN d |-> RDiv(d[c], TotalOr1(d))]

\* share.get(ch, 0.0)
ShareOf(share, ch) == IF ch \in DOMAIN share THEN share[ch] ELSE RZero

\* disagreement += abs(a - m) over the union of the channels
Disagreement(attribution_share, mmm_share) ==
    LET chans == DOMAIN attribution_share \cup DOMAIN mmm_share
    IN  RSumOver([c \in chans |->
                     RAbs(RSub(ShareOf(attribution_share, c), ShareOf(mmm_share, c)))],
                 chans)

\* round(x, 4) for x >= 0: the nearest multiple of 0.0001, a tie going to the even one.
Round4(x) ==
    LET q == (x[1] * 10000) \div x[2]
        r == (x[1] * 10000) % x[2]
    IN  IF 2 * r < x[2] THEN R(q, 10000)
        ELSE IF 2 * r > x[2] THEN R(q + 1, 10000)
        ELSE R(IF q % 2 = 0 THEN q ELSE q + 1, 10000)

\* A flag computed from the rounded score that the report shows.
InstabilityFlaggedFromRounded(disagreement, threshold) == RLt(threshold, Round4(disagreement))

\* instability_flagged = disagreement_score > instability_threshold
InstabilityFlagged(disagreement, threshold) == RLt(threshold, disagreement)

ReportOf(start, end, attribution_run_id, mmm_run_id, threshold) ==
    LET attr_rev == AttributionRevenueByChannel(start, end, attribution_run_id)
        contribution == MmmContribution(start, end, mmm_run_id)
        disagreement == Disagreement(Shares(attr_rev), Shares(contribution))
    IN  [status |-> "ok", threshold |-> threshold,
         attr_rev |-> attr_rev, contribution |-> contribution,
         channels |-> DOMAIN attr_rev \cup DOMAIN contribution,
         attribution_share |-> Shares(attr_rev),
         mmm_share |-> Shares(contribution),
         disagreement_score |-> Round4(disagreement),
         instability_flagged |-> InstabilityFlagged(disagreement, threshold)]

\* What is remembered of a call besides its result: its number, its arguments,
\* and how many writing calls had been made before it and before the previous one.
ReportCall(start, end, attribution_run_id, mmm_run_id, threshold) ==
    [call |-> [n |-> report.call.n + 1,
               args |-> <<start, end, attribution_run_id, mmm_run_id, threshold>>,
               at |-> n_calls, prev_at |-> report.call.at]]

\* A report function that keeps its last result and hands it out again when it
\* is called with the same arguments.
BuildAttributionMmmReportCached(start, end, attribution_run_id, mmm_run_id, threshold) ==
    /\ report' =
          (IF report.status = "ok"
              /\ report.call.args = <<start, end, attribution_run_id, mmm_run_id, threshold>>
           THEN [c \in DOMAIN report \ {"call"} |-> report[c]]
           ELSE ReportOf(start, end, attribution_run_id, mmm_run_id, threshold))
          @@ ReportCall(start, end, attribution_run_id, mmm_run_id, threshold)
    /\ UNCHANGED <<copilot_tables, last_metrics, http, last_ingest, raw_tables, attribution_events, mmm_results, unified_daily_metrics,
                   engine_run_metadata, diagnostics_cache, pipeline_subscribers,
                   last_attr, last_mmm, pipe, n_calls>>

\* build_attribution_mmm_report: a read of the tables, nothing written, nothing kept.
BuildAttributionMmmReport(start, end, attribution_run_id, mmm_run_id, threshold) ==
    /\ report' = ReportOf(start, end, attribution_run_id, mmm_run_id, threshold)
                  @@ ReportCall(start, end, attribution_run_id, mmm_run_id, threshold)
    /\ UNCHANGED <<copilot_tables, last_metrics, http, last_ingest, raw_tables, attribution_events, mmm_results, unified_daily_metrics,
                   engine_run_metadata, diagnostics_cache, pipeline_subscribers,
                   last_attr, last_mmm, pipe, n_calls>>

\* ------------------------------------------------------------------------
\* SpecReport: reports over what run_attribution and run_mmm wrote
\* ------------------------------------------------------------------------
MaxReportCalls == 2

MaxReportBuilds == 2

\* A Shopify order credited to meta by click "c1" and a WooCommerce order that is
\* credited to google by click "c2" or, without a click_id, split by spend.
ReportOrders(shopify_revenue, woo_revenue, woo_click) ==
    <<<<ShopifyRow([PlainOrder("ord_1") EXCEPT !.revenue = shopify_revenue,
                                               !.click_id = Some(CidC1)])>>,
      <<[PlainOrder("wc_1") EXCEPT !.revenue = Abs(woo_revenue),
                                   !.net_revenue = Some(woo_revenue),
                                   !.click_id = woo_click]>>>>

\* 60 / 40; 3127 / 1876; 50 / 30; 10 against a WooCommerce order refunded to -10;
\* and no order at all
ReportOrderChoices ==
    {ReportOrders(60, 40, Some(CidC2)), ReportOrders(3127, 1876, Some(CidC2)),
     ReportOrders(50, 30, Some(CidC2)), ReportOrders(10, -10, None), <<<<>>, <<>>>>}

ReportClicks ==
    <<ClickRowMeta,
      [click_id |-> CidC2, date |-> 1, campaign_id |-> "cmp_google",
       campaign_name |-> None, channel |-> "google"]>>

\* With spend 600 / 400 the responses are 5/2 and 2: contributions 6 and 4,
\* 3 and 7, 5 and 5, 5 and -5, 5 and -4.
ReportFitChoices ==
    {Fit(R(12, 5), RInt(2)), Fit(R(6, 5), R(7, 2)), Fit(RInt(2), R(5, 2)),
     Fit(RInt(2), R(-5, 2)), Fit(RInt(2), RInt(-2))}

ReportThresholds == {InstabilityThreshold, R(3, 5)}

InitReport ==
    \E o \in ReportOrderChoices :
        InitWith({o[1]}, {o[2]}, {ReportClicks}, {NoAds, AdsSixtyForty})

ReportRunAttribution ==
    /\ n_calls < MaxReportCalls
    /\ RunAttribution("run-default", 1, MaxDate, None, None, MinSequencesForMarkov,
                      DefaultCredit(1, MaxDate), "none")

ReportRunMmm ==
    /\ n_calls < MaxReportCalls
    /\ \E w \in MmmWindows, fit \in ReportFitChoices :
          RunMmm("run-default", w[1], w[2], None, fit, "none")

ReportBuild ==
    /\ report.call.n < MaxReportBuilds
    /\ \E w \in {<<1, MaxDate>>, <<MaxDate, MaxDate>>}, rid \in {None, Some("run-default")},
          threshold \in ReportThresholds :
           BuildAttributionMmmReport(w[1], w[2], rid, rid, threshold)

NextReport == ReportRunAttribution \/ ReportRunMmm \/ ReportBuild

SpecReport == InitReport /\ [][NextReport]_vars

\* The L1 distance of the two share maps of the last report, a missing channel
\* counting as share 0.
ReportL1 ==
    RSumOver([c \in report.channels |->
                 RAbs(RSub(ShareOf(report.attribution_share, c),
                           ShareOf(report.mmm_share, c)))],
             report.channels)

SharesAgree ==
    \A c \in report.channels :
        ShareOf(report.attribution_share, c) = ShareOf(report.mmm_share, c)

\* C8 as claimed: the disagreement score is the sum over the union of channels
\* of |attribution_share - mmm_share| (as returned, to 4 decimals), is 0 when the
\* two shares agree on every channel, and lies in [0, 2].
C8_ScoreIsL1InRange ==
    report.status = "ok" =>
        /\ report.disagreement_score = Round4(ReportL1)
        /\ SharesAgree => report.disagreement_score = RZero
        /\ RLe(RZero, report.disagreement_score)
        /\ RLe(report.disagreement_score, RInt(2))

\* C9 as claimed: a side whose total is zero has every share 0.
C9_ZeroTotalGivesZeroShares ==
    report.status = "ok" =>
        /\ RSumOver(report.attr_rev, DOMAIN report.attr_rev) = RZero
              => \A c \in DOMAIN report.attribution_share : report.attribution_share[c] = RZero
        /\ RSumOver(report.contribution, DOMAIN report.contribution) = RZero
              => \A c \in DOMAIN report.mmm_share : report.mmm_share[c] = RZero

ReportResult(r) == [c \in DOMAIN r \ {"call"} |-> r[c]]

\* C11: build_attribution_mmm_report is a pure read.  Every call leaves every
\* table (and the diagnostics cache) as it was, and what it returns is the
\* report computed from the tables as they are at the call: so two calls over
\* the same tables return the same report, and a call made after new
\* attribution events or MMM rows were written reflects them.
C11_ReportIsPureRead ==
    [][report'.call.n # report.call.n =>
          /\ UNCHANGED <<copilot_tables, last_metrics, raw_tables, attribution_events, mmm_results, unified_daily_metrics,
                         engine_run_metadata, diagnostics_cache>>
          /\ LET a == report'.call.args
             IN  ReportResult(report') = ReportOf(a[1], a[2], a[3], a[4], a[5])]_vars

\* A second report, built after attribution events or MMM rows were written
\* since the first one, that shows attributed revenue.
C11_Witness ==
    /\ report.status = "ok"
    /\ report.call.n = 2
    /\ report.call.prev_at < report.call.at
    /\ DOMAIN report.attr_rev # {}
    /\ DOMAIN report.contribution # {}

\* ------------------------------------------------------------------------
\* ApiKeyMiddleware.dispatch
\* ------------------------------------------------------------------------
\* Keys, header values and paths are sequences of tokens: single characters,
\* and words such as "Bearer" or "health" standing for their letters.  A header
\* or a setting that is not there is None.

\* settings.api_key and settings.api_key.strip()
ApiKeyConfigured(api_key) == api_key # None /\ Strip(Get(api_key)) # <<>>

\* str.rstrip("/")
RECURSIVE RStripSlash(_)
RStripSlash(s) ==
    IF s # <<>> /\ s[Len(s)] = "/" THEN RStripSlash(SubSeq(s, 1, Len(s) - 1)) ELSE s

\* path = request.url.path.rstrip("/") or "/"
RequestPath(path) == IF RStripSlash(path) = <<>> THEN <<"/">> ELSE RStripSlash(path)

\* request.headers.get("X-API-Key") or None
XApiKey(x_api_key) ==
    IF x_api_key = None \/ Get(x_api_key) = <<>> THEN None ELSE x_api_key

\* request.headers.get("Authorization", "").startswith("Bearer ")
StartsWithBearer(authorization) ==
    /\ Len(authorization) >= 2
    /\ authorization[1] = "Bearer"
    /\ authorization[2] = " "

\* authorization.split(" ", 1)[1].strip()
BearerToken(authorization) ==
    LET k == CHOOSE i \in DOMAIN authorization :
                 /\ authorization[i] = " "
                 /\ \A j \in 1..(i - 1) : authorization[j] # " "
    IN  Strip(SubSeq(authorization, k + 1, Len(authorization)))

\* A key lookup that reads the Authorization header only.
RequestKeyIgnoringXApiKey(x_api_key, authorization) ==
    LET auth == IF authorization = None THEN <<>> ELSE Get(authorization)
    IN  IF StartsWithBearer(auth) THEN Some(BearerToken(auth)) ELSE None

\* key: the X-API-Key header, else the Bearer token
RequestKey(x_api_key, authorization) ==
    LET key == XApiKey(x_api_key)
        auth == IF authorization = None THEN <<>> ELSE Get(authorization)
    IN  IF key = None /\ StartsWithBearer(auth) THEN Some(BearerToken(auth)) ELSE key

\* dispatch: call_next(request) or the 401 answer.  When the request is passed
\* on, the status code is the handler's.
Dispatch(api_key, path, x_api_key, authorization) ==
    LET passed == \/ ~ApiKeyConfigured(api_key)
                  \/ RequestPath(path) = <<"/", "health">>
                  \/ RequestKey(x_api_key, authorization) = api_key
    IN  /\ http' = [kind |-> "dispatch", api_key |-> api_key, path |-> path,
                    x_api_key |-> x_api_key, authorization |-> authorization,
                    handled |-> passed,
                    status_code |-> IF passed THEN None ELSE Some(401)]
        /\ UNCHANGED <<copilot_tables, last_metrics, raw_tables, attribution_events, mmm_results, unified_daily_metrics,
                       engine_run_metadata, diagnostics_cache, pipeline_subscribers,
                       last_attr, last_mmm, report, pipe, n_calls, last_ingest>>

\* ------------------------------------------------------------------------
\* SpecApiKey: requests through the API key middleware
\* ------------------------------------------------------------------------
Key1 == <<"k", "1">>

Key2 == <<"k", "2">>

\* API_KEY unset, empty, blank, set, and set with blanks around it.
ApiKeyChoices == {None, Some(<<>>), Some(<<" ">>), Some(Key1), Some(<<" ">> \o Key1 \o <<" ">>)}

PathChoices ==
    {<<"/", "health">>, <<"/", "health", "/">>, <<"/">>, <<"/", "run">>,
     <<"/", "api", "/", "v1", "/", "decisions", "/">>}

\* No X-API-Key header, an empty one, the right key, a wrong key.
XApiKeyChoices == {None, Some(<<>>), Some(Key1), Some(Key2)}

\* No Authorization header; Bearer with the right key, with two blanks before
\* it, with a wrong key; another scheme; the scheme in lower case.
AuthorizationChoices ==
    {None, Some(<<"Bearer", " ">> \o Key1), Some(<<"Bearer", " ", " ">> \o Key1),
     Some(<<"Bearer", " ">> \o Key2), Some(<<"Basic", " ">> \o Key1),
     Some(<<"bearer", " ">> \o Key1)}

InitApiKey == InitWith({<<>>}, {<<>>}, {<<>>}, {NoAds})

ApiKeyRequest ==
    \E api_key \in ApiKeyChoices, path \in PathChoices, x_api_key \in XApiKeyChoices,
       authorization \in AuthorizationChoices :
        Dispatch(api_key, path, x_api_key, authorization)

NextApiKey == ApiKeyRequest

SpecApiKey == InitApiKey /\ [][NextApiKey]_vars

\* The configured key has a character that is not a blank.
KeyIsConfigured ==
    /\ http.api_key # None
    /\ \E i \in DOMAIN Get(http.api_key) : Get(http.api_key)[i] # " "

\* The key the request presents: the value of X-API-Key when the header carries
\* one, else the token of an Authorization header of the form "Bearer <token>".
PresentedKey ==
    IF http.x_api_key # None /\ Get(http.x_api_key) # <<>> THEN http.x_api_key
    ELSE IF /\ http.authorization # None
            /\ Len(Get(http.authorization)) >= 2
            /\ Get(http.authorization)[1] = "Bearer"
            /\ Get(http.authorization)[2] = " "
         THEN Some(SelectSeq(Tail(Get(http.authorization)), LAMBDA c : c # " "))
         ELSE None

\* C13: when an API key is configured (non-blank), a request to a path other
\* than /health (with or without trailing slashes) is passed on to its handler
\* exactly when the key it presents equals the configured key, and is answered
\* 401 otherwise; /health is always passed on, and when no key is configured
\* every request is passed on.
C13_ApiKeyGate ==
    http.kind = "dispatch" =>
        IF ~KeyIsConfigured THEN http.handled
        ELSE IF http.path \in {<<"/", "health">>, <<"/", "health", "/">>} THEN http.handled
        ELSE /\ http.handled <=> PresentedKey = http.api_key
             /\ ~http.handled => http.status_code = Some(401)

\* A request to /run that carries the right key in X-API-Key next to a wrong
\* Bearer token, under a configured key, is passed on.
C13_Witness ==
    /\ http.kind = "dispatch"
    /\ http.api_key = Some(Key1)
    /\ http.path = <<"/", "run">>
    /\ http.x_api_key = Some(Key1)
    /\ http.authorization = Some(<<"Bearer", " ">> \o Key2)
    /\ http.handled

\* ------------------------------------------------------------------------
\* SpecIngest: run_ingest called again and again over data directories
\* ------------------------------------------------------------------------
MaxIngestRuns == 3

\* data/raw with one Shopify order and its sale
SaleOnlyDir ==
    [EmptyDir EXCEPT
        !.shopify_orders =
            Some(<<[order_id |-> "ord_2", order_date |-> 1, revenue |-> 10,
                    total_price |-> None, net_revenue |-> None, click_id |-> None,
                    cancelled_at |-> None, financial_status |-> None]>>),
        !.shopify_transactions =
            Some(<<[order_id |-> "ord_2", kind |-> "sale", status |-> Some("success"),
                    amount |-> Some(10)]>>)]

\* data/raw with orders and no transactions file
NoTransactionsDir ==
    [EmptyDir EXCEPT
        !.shopify_orders =
            Some(<<[order_id |-> "ord_3", order_date |-> 1, revenue |-> 5,
                    total_price |-> Some(6), net_revenue |-> None, click_id |-> None,
                    cancelled_at |-> None, financial_status |-> Some("Refunded")]>>),
        !.woocommerce_orders =
            Some(<<[order_id |-> "wc_3", order_date |-> 1, revenue |-> 7,
                    net_revenue |-> Some(3), click_id |-> None]>>)]

\* data/raw with a cancelled order that has a sale
CancelledDir ==
    [EmptyDir EXCEPT
        !.shopify_orders =
            Some(<<[order_id |-> "ord_4", order_date |-> 1, revenue |-> 10,
                    total_price |-> None, net_revenue |-> None, click_id |-> None,
                    cancelled_at |-> Some(1), financial_status |-> None]>>),
        !.shopify_transactions =
            Some(<<[order_id |-> "ord_4", kind |-> "sale", status |-> Some("success"),
                    amount |-> Some(10)]>>)]

IngestDirs == {EmptyDir, SampleDir, SaleOnlyDir, NoTransactionsDir, CancelledDir}

\* run_ingest raises in none of its calls, in load_shopify_transactions, or in
\* reconcile_orders.
IngestFailures == {0, 6, Len(IngestSteps)}

InitIngest == InitWith({<<>>}, {<<>>}, {<<>>}, {NoAds})

IngestRun ==
    /\ n_calls < MaxIngestRuns
    /\ n_calls' = n_calls + 1
    /\ \E files \in IngestDirs, fail_at \in IngestFailures : IngestCall(files, fail_at)
    /\ UNCHANGED <<copilot_tables, last_metrics, http, attribution_events, mmm_results, unified_daily_metrics,
                   engine_run_metadata, diagnostics_cache, pipeline_subscribers,
                   last_attr, last_mmm, report, pipe>>

NextIngest == IngestRun

SpecIngest == InitIngest /\ [][NextIngest]_vars

\* The last two or more run_ingest calls completed over the same files.
IngestedAgain == last_ingest.status = "ok" /\ last_ingest.runs >= 2

\* C14 as claimed: after two or more runs over the same unchanged CSV files
\* every order's net_revenue equals its value after the first of them.
C14_IngestKeepsNetRevenue ==
    IngestedAgain =>
        NetRevenues(raw_shopify_orders, raw_woocommerce_orders) = last_ingest.first_net

\* The part of C14 that holds: the WooCommerce orders, and the Shopify orders
\* that have no transaction row, keep their net_revenue.
IngestKeepsNetWithoutTransactions ==
    IngestedAgain =>
        /\ \A i \in DOMAIN raw_woocommerce_orders :
              raw_woocommerce_orders[i].net_revenue = last_ingest.first_net[2][i]
        /\ \A i \in DOMAIN raw_shopify_orders :
              (\A k \in DOMAIN raw_shopify_transactions :
                   raw_shopify_transactions[k].order_id # i)
                 => raw_shopify_orders[i].net_revenue = last_ingest.first_net[1][i]

\* C15 as claimed: raw_ad_clicks holds at most one row per click_id.
C15_OneRowPerClickId ==
    \A i, j \in DOMAIN raw_ad_clicks :
        raw_ad_clicks[i].click_id = raw_ad_clicks[j].click_id => i = j

\* The last run_ingest call returned, so reconcile_orders has run.
Reconciled == last_ingest.status = "ok"

\* The transactions of the order with primary key i.
TransactionsOf(i) == SelectSeq(raw_shopify_transactions, LAMBDA t : t.order_id = i)

\* The order was refunded or voided and has no transaction.
RefundedWithoutTransactions(i) ==
    /\ TransactionsOf(i) = <<>>
    /\ \/ StatusIs(raw_shopify_orders[i].financial_status, "refunded")
       \/ StatusIs(raw_shopify_orders[i].financial_status, "voided")

\* C21 as claimed: after reconcile_orders an order with transactions has
\* net_revenue = successful sales and captures minus successful refunds, and a
\* cancelled order, or a refunded or voided order without transactions, has
\* net_revenue 0.
C21_ReconciledNetRevenue ==
    Reconciled =>
        \A i \in DOMAIN raw_shopify_orders :
            LET o == raw_shopify_orders[i]
            IN  /\ (TransactionsOf(i) # <<>> /\ o.cancelled_at = None) =>
                      o.net_revenue = Some(Sales(TransactionsOf(i)) - Refunds(TransactionsOf(i)))
                /\ o.cancelled_at # None => o.net_revenue = Some(0)
                /\ RefundedWithoutTransactions(i) => o.net_revenue = Some(0)

\* The part of C21 that holds: with transactions the net revenue is sales minus
\* refunds, or 0 when the order is cancelled.
ReconciledNetWithTransactions ==
    Reconciled =>
        \A i \in DOMAIN raw_shopify_orders :
            LET o == raw_shopify_orders[i]
            IN  TransactionsOf(i) # <<>> =>
                    o.net_revenue =
                        Some(IF o.cancelled_at # None THEN 0
                             ELSE Sales(TransactionsOf(i)) - Refunds(TransactionsOf(i)))

\* ------------------------------------------------------------------------
\* GET /optimizer/budget and GET /health
\* ------------------------------------------------------------------------
\* lookback_days: int = 30
LookbackDays == 30

\* _current_spend_by_channel: the spend of the unified_daily_metrics rows dated
\* in [today - lookback_days, today], summed per channel; zero for meta and
\* google when no row is in that window.
CurrentSpendByChannel(today, lookback_days) ==
    LET rows == SelectSeq(unified_daily_metrics,
                          LAMBDA r : InWindow(r.date, today - lookback_days, today))
        by_ch == [c \in {rows[i].channel : i \in DOMAIN rows} |-> SpendTotal(rows, c)]
    IN  IF DOMAIN by_ch = {} THEN [c \in {"meta", "google"} |-> 0] ELSE by_ch

\* _latest_mmm_coefficients: the rows are read newest first, rid is the run_id of
\* the first, and the dict comprehension keeps, per channel, the last row read
\* with that run_id: the oldest one.
LatestMmmCoefficients ==
    IF mmm_results = <<>> THEN <<>>
    ELSE LET newest == CHOOSE i \in DOMAIN mmm_results :
                           \A j \in DOMAIN mmm_results :
                               mmm_results[j].created_at <= mmm_results[i].created_at
             rid == mmm_results[newest].run_id
             mine == SelectSeq(mmm_results, LAMBDA r : r.run_id = rid)
         IN  [c \in {mine[i].channel : i \in DOMAIN mine} |->
                 LET of_c == {i \in DOMAIN mine : mine[i].channel = c}
                     oldest == CHOOSE i \in of_c :
                                   \A j \in of_c : mine[i].created_at <= mine[j].created_at
                 IN  mine[oldest].coefficient]

\* The increment the budget is cut into.
BudgetIncrement == 100

\* Position of a channel in the order of the names.
ChannelRank(c) == CHOOSE i \in DOMAIN ChannelsByName : ChannelsByName[i] = c

\* One increment after the other goes to the channel whose predicted revenue
\* gains most from it, the first by name among equals; the last increment is
\* what is left of the budget.
RECURSIVE GreedySteps(_, _, _, _)
GreedySteps(remaining, coefficients, allocation, increment) ==
    IF remaining <= 0 \/ DOMAIN coefficients = {} THEN allocation
    ELSE LET inc == IF remaining < increment THEN remaining ELSE increment
             gain == [c \in DOMAIN coefficients |->
                         RMul(coefficients[c],
                              RSub(Response(allocation[c] + inc), Response(allocation[c])))]
             best == CHOOSE c \in DOMAIN coefficients :
                         \A o \in DOMAIN coefficients :
                             \/ RLt(gain[o], gain[c])
                             \/ gain[o] = gain[c] /\ ChannelRank(c) <= ChannelRank(o)
         IN  GreedySteps(remaining - inc, coefficients,
                         [allocation EXCEPT ![best] = @ + inc], increment)

\* allocate_budget_greedy(total_budget, coefficients, current_spend): the
\* allocation is built up from nothing over the channels that have a coefficient.
AllocateBudgetGreedy(total_budget, coefficients, current_spend) ==
    GreedySteps(total_budget, coefficients, [c \in DOMAIN coefficients |-> 0],
                BudgetIncrement)

\* predicted_revenue(allocation, coefficients): the sum of coef * response.
PredictedRevenue(allocation, coefficients) ==
    RSumOver([c \in DOMAIN allocation |->
                 RMul(IF c \in DOMAIN coefficients THEN coefficients[c] ELSE RZero,
                      Response(allocation[c]))],
             DOMAIN allocation)

\* round(x, 2): the nearest multiple of 0.01, a tie going to the even one.
Round2(x) ==
    LET a == RAbs(x)
        q == (a[1] * 100) \div a[2]
        r == (a[1] * 100) % a[2]
        n == IF 2 * r < a[2] THEN q
             ELSE IF 2 * r > a[2] THEN q + 1
             ELSE IF q % 2 = 0 THEN q ELSE q + 1
    IN  IF x[1] < 0 THEN R(-n, 100) ELSE R(n, 100)

\* optimizer_budget: without coefficients the current spend is returned as the
\* recommendation; with them, the greedy allocation of total_budget.
OptimizerBudget(total_budget, today) ==
    LET current == CurrentSpendByChannel(today, LookbackDays)
        coefs == LatestMmmCoefficients
        fitted == DOMAIN coefs # {}
        recommended == IF fitted THEN AllocateBudgetGreedy(total_budget, coefs, current)
                       ELSE current
    IN  /\ http' = [kind |-> "optimizer_budget", status_code |-> Some(200),
                    total_budget |-> total_budget,
                    recommended_allocation |-> recommended,
                    current_spend |-> current,
                    predicted_revenue_at_recommended |->
                        IF fitted THEN Round2(PredictedRevenue(recommended, coefs))
                        ELSE RZero,
                    fitted |-> fitted]
        /\ UNCHANGED <<copilot_tables, last_metrics, raw_tables, attribution_events, mmm_results, unified_daily_metrics,
                       engine_run_metadata, diagnostics_cache, pipeline_subscribers,
                       last_attr, last_mmm, report, pipe, n_calls, last_ingest>>

\* What connecting and executing SELECT 1 can do: succeed, or raise.
DbOutcomes == {"ok", "OperationalError", "TimeoutError"}

\* A readiness check that lets a timeout through as a success.
HealthDbOkExceptTimeout(db) == db \notin {"OperationalError"}

\* _health_db_ok: True when SELECT 1 ran, False on any Exception.
HealthDbOk(db) == db = "ok"

\* health: 200 {"status": "ok"}, or 503 {"status": "degraded", "database": "unavailable"}.
Health(db) ==
    LET db_ok == HealthDbOk(db)
        status == IF db_ok THEN "ok" ELSE "degraded"
    IN  /\ http' = [kind |-> "health", db |-> db, raised |-> FALSE,
                    status_code |-> Some(IF db_ok THEN 200 ELSE 503),
                    status |-> status,
                    database |-> IF db_ok THEN None ELSE Some("unavailable")]
        /\ UNCHANGED <<copilot_tables, last_metrics, raw_tables, attribution_events, mmm_results, unified_daily_metrics,
                       engine_run_metadata, diagnostics_cache, pipeline_subscribers,
                       last_attr, last_mmm, report, pipe, n_calls, last_ingest>>

\* ------------------------------------------------------------------------
\* SpecEndpoints: run_metrics and run_mmm fill the store, the two endpoints read
\* ------------------------------------------------------------------------
MaxEndpointCalls == 2

\* Budgets up to the spend of 600 + 400; 250 is not a multiple of the increment.
TotalBudgets == {0, 100, 250, 1000}

InitEndpoints ==
    InitWith({<<ShopifyRow(PlainOrder("ord_1"))>>}, {<<>>}, {<<>>}, {NoAds, AdsSixtyForty})

EndpointsRunMetrics ==
    /\ n_calls < MaxEndpointCalls
    /\ n_calls' = n_calls + 1
    /\ MetricsCall(PipelineStart, PipelineEnd, None, FALSE)
    /\ UNCHANGED <<copilot_tables, http, last_ingest, raw_tables, attribution_events, mmm_results,
                   engine_run_metadata, diagnostics_cache, pipeline_subscribers,
                   last_attr, last_mmm, report, pipe>>

EndpointsRunMmm ==
    /\ n_calls < MaxEndpointCalls
    /\ \E rid \in RunIds, chs \in {None, Some(<<"meta">>)}, fit \in MmmFitChoices :
          RunMmm(rid, PipelineStart, PipelineEnd, chs, fit, "none")

EndpointsOptimizerBudget ==
    \E total_budget \in TotalBudgets : OptimizerBudget(total_budget, PipelineEnd)

EndpointsHealth == \E db \in DbOutcomes : Health(db)

NextEndpoints ==
    \/ EndpointsRunMetrics
    \/ EndpointsRunMmm
    \/ EndpointsOptimizerBudget
    \/ EndpointsHealth

SpecEndpoints == InitEndpoints /\ [][NextEndpoints]_vars

\* Sum of the values of an allocation.
RECURSIVE AllocationSum(_)
AllocationSum(allocation) ==
    IF DOMAIN allocation = {} THEN 0
    ELSE LET c == CHOOSE x \in DOMAIN allocation : TRUE
         IN  allocation[c] + AllocationSum([o \in DOMAIN allocation \ {c} |-> allocation[o]])

\* C17 as claimed: whatever the store holds and whatever total_budget is, the
\* recommended allocation that GET /optimizer/budget returns sums to no more than
\* total_budget.
C17_AllocationWithinBudget ==
    http.kind = "optimizer_budget" =>
        AllocationSum(http.recommended_allocation) <= http.total_budget

\* What does hold: once MMM coefficients exist the recommendation sums to
\* total_budget, and without them it is the current spend, whatever total_budget.
AllocationWithinBudgetWhenFitted ==
    http.kind = "optimizer_budget" =>
        IF http.fitted
        THEN AllocationSum(http.recommended_allocation) = http.total_budget
        ELSE http.recommended_allocation = http.current_spend

\* C18: GET /health answers 200 with status "ok" exactly when the database check
\* succeeded and 503 with status "degraded" exactly when it failed; a failing
\* database never surfaces as an exception or as a 200.
C18_HealthReflectsDatabase ==
    http.kind = "health" =>
        /\ ~http.raised
        /\ http.status_code \in {Some(200), Some(503)}
        /\ (http.status_code = Some(200) /\ http.status = "ok") <=> http.db = "ok"
        /\ (http.status_code = Some(503) /\ http.status = "degraded") <=> http.db # "ok"

\* A health request answered 503 after the database check timed out.
C18_Witness ==
    /\ http.kind = "health"
    /\ http.db = "TimeoutError"
    /\ http.status_code = Some(503)
    /\ http.status = "degraded"

\* ------------------------------------------------------------------------
\* POST /run under SpecPipeline
\* ------------------------------------------------------------------------
\* A POST /run request has been answered and none of its stages raised.
RunAnswered == pipe.pc = "done" /\ pipe.trigger = "trigger_run" /\ pipe.raised = None

\* C19: POST /run with seed s runs every stage of the pipeline before it
\* answers; the answer is 202 with status "accepted" and run_id "run-<s>"
\* ("run-default" without a seed), and every AttributionEvent and MMMResults row
\* the run wrote carries that run_id.
C19_RunAcceptedAfterPipeline ==
    /\ (pipe.trigger = "trigger_run" /\ pipe.pc # "done") =>
            pipe.response = 0 /\ pipe.body = None
    /\ RunAnswered =>
        /\ pipe.stages = Stages
        /\ last_attr.status = "ok" /\ last_mmm.status = "ok"
        /\ pipe.response = 202
        /\ pipe.body # None
        /\ Get(pipe.body).status = "accepted"
        /\ pipe.seed = None => Get(pipe.body).run_id = "run-default"
        /\ pipe.seed = Some(0) => Get(pipe.body).run_id = "run-0"
        /\ pipe.seed = Some(42) => Get(pipe.body).run_id = "run-42"
        /\ \A i \in DOMAIN last_attr.committed :
              last_attr.committed[i].run_id = Get(pipe.body).run_id
        /\ \A i \in DOMAIN last_mmm.rows :
              last_mmm.rows[i].run_id = Get(pipe.body).run_id

\* POST /run?seed=42 answered 202 after a run that wrote attribution events and
\* MMM rows.
C19_Witness ==
    /\ RunAnswered
    /\ pipe.seed = Some(42)
    /\ pipe.response = 202
    /\ Get(pipe.body).run_id = "run-42"
    /\ last_attr.committed # <<>>
    /\ last_mmm.rows # <<>>

\* ------------------------------------------------------------------------
\* SpecFractional: the fractional pass over spend inside and outside the window
\* ------------------------------------------------------------------------
MaxFractionalCalls == 2

\* meta 600 and google 400 on day 1, google 200 on the last day
AdsTwoDays ==
    [AdsSixtyForty EXCEPT
        !["google"] = Append(@, [date |-> MaxDate, campaign_id |-> "cmp_google",
                                 spend |-> 200])]

\* No WooCommerce order, one of the first day refunded down to 6, or one of the
\* last day.
FractionalWooTables ==
    {<<>>,
     <<[PlainOrder("wc_1") EXCEPT !.net_revenue = Some(6)]>>,
     <<[PlainOrder("wc_1") EXCEPT !.order_date = MaxDate]>>}

\* A Shopify order of 100 on the first day; no order has a click_id.
InitFractional ==
    InitWith({<<ShopifyRow([PlainOrder("ord_1") EXCEPT !.revenue = 100])>>},
             FractionalWooTables, {<<>>}, {NoAds, AdsSixtyForty, AdsTwoDays})

FractionalRunAttribution ==
    /\ n_calls < MaxFractionalCalls
    /\ \E rid \in RunIds, w \in Windows, cw \in {None, Some(ExplicitWeights)} :
          RunAttribution(rid, w[1], w[2], cw, None, MinSequencesForMarkov,
                         DefaultCredit(w[1], w[2]), "none")

NextFractional == FractionalRunAttribution

SpecFractional == InitFractional /\ [][NextFractional]_vars

\* Spend of the rows dated in [start, end].
RECURSIVE SpendOfRows(_, _, _)
SpendOfRows(rows, start, end) ==
    IF rows = <<>> THEN 0
    ELSE (IF start <= Head(rows).date /\ Head(rows).date <= end THEN Head(rows).spend ELSE 0)
         + SpendOfRows(Tail(rows), start, end)

\* Spend of a channel in the window of the last call, and of all channels.
WindowSpend(ch) == SpendOfRows(raw_ads[ch], last_attr.start, last_attr.end)

WindowSpendTotal ==
    WindowSpend("meta") + WindowSpend("google") + WindowSpend("bing")
    + WindowSpend("pinterest")

\* The last call ran the fractional pass and no weights were handed to it.
FractionalWithoutWeights ==
    last_attr.status = "ok" /\ last_attr.core.ran /\ last_attr.core.weights = None

\* The events of the last call's fractional pass for one order and one channel.
FractionalEvents(id, ch) ==
    SelectSeq(last_attr.core.events, LAMBDA e : e.order_id = id /\ e.channel = ch)

MaxMetricsRuns == 3

MaxMetricsAttributionCalls == 1

\* The first day, the last day, both, and a window that ends before it starts.
MetricsWindows == Windows \cup {<<MaxDate, 1>>}

\* No run filter, an empty one, and the two run_ids.
MetricsRunIds == {None, Some("")} \cup {Some(rid) : rid \in RunIds}

\* Spend on both days, an order of 100 on the first day and one of 10 on the last.
InitMetrics ==
    InitWith({<<ShopifyRow([PlainOrder("ord_1") EXCEPT !.revenue = 100])>>},
             {<<[PlainOrder("wc_1") EXCEPT !.order_date = MaxDate]>>}, {<<>>},
             {AdsSixtyForty, AdsTwoDays})

MetricsRunAttribution ==
    /\ n_calls < MaxMetricsAttributionCalls
    /\ \E rid \in RunIds, w \in Windows :
          RunAttribution(rid, w[1], w[2], None, None, MinSequencesForMarkov,
                         DefaultCredit(w[1], w[2]), "none")

MetricsRun ==
    /\ last_metrics.n < MaxMetricsRuns
    /\ \E w \in MetricsWindows, rid \in MetricsRunIds, fail \in BOOLEAN :
          MetricsCall(w[1], w[2], rid, fail)
    /\ UNCHANGED <<copilot_tables, http, last_ingest, raw_tables, attribution_events,
                   mmm_results, engine_run_metadata, diagnostics_cache,
                   pipeline_subscribers, last_attr, last_mmm, report, pipe, n_calls>>

NextMetrics == MetricsRunAttribution \/ MetricsRun

SpecMetrics == InitMetrics /\ [][NextMetrics]_vars

\* The rows of a table dated outside, or inside, [start, end].
RowsOutside(tbl, start, end) == SelectSeq(tbl, LAMBDA r : ~(start <= r.date /\ r.date <= end))

RowsInside(tbl, start, end) == SelectSeq(tbl, LAMBDA r : start <= r.date /\ r.date <= end)

\* C22: unified_daily_metrics never holds two rows of the same (date, channel),
\* and a run_metrics call that returns leaves the rows dated outside its window
\* as they were and puts, in place of the rows dated inside it, one row for each
\* (date, channel) of the window that has spend or attributed revenue.
C22_OneRowPerDateAndChannel ==
    /\ [](\A i, j \in DOMAIN unified_daily_metrics :
             (/\ unified_daily_metrics[i].date = unified_daily_metrics[j].date
              /\ unified_daily_metrics[i].channel = unified_daily_metrics[j].channel)
                => i = j)
    /\ [][(last_metrics'.n # last_metrics.n /\ ~last_metrics'.fail) =>
            LET start == last_metrics'.start
                end == last_metrics'.end
                fresh == RowsInside(unified_daily_metrics', start, end)
            IN  /\ RowsOutside(unified_daily_metrics', start, end)
                      = RowsOutside(unified_daily_metrics, start, end)
                /\ {<<fresh[k].date, fresh[k].channel>> : k \in DOMAIN fresh}
                      = MetricKeys(start, end, last_metrics'.run_id)
                /\ Len(fresh) = Cardinality(MetricKeys(start, end, last_metrics'.run_id))
                /\ \A k \in DOMAIN fresh :
                      fresh[k] = MetricRecord(fresh[k].date, fresh[k].channel, start, end,
                                              last_metrics'.run_id)]_vars

\* The third call, over the last day, kept the row of the first day and replaced
\* the rows of the last day that an earlier, overlapping call had written.
C22_Witness ==
    /\ last_metrics.n = 3
    /\ ~last_metrics.fail
    /\ last_metrics.start = MaxDate /\ last_metrics.end = MaxDate
    /\ RowsInside(last_metrics.before, MaxDate, MaxDate) # <<>>
    /\ RowsOutside(last_metrics.before, MaxDate, MaxDate) # <<>>
    /\ RowsInside(unified_daily_metrics, MaxDate, MaxDate)
          # RowsInside(last_metrics.before, MaxDate, MaxDate)
    /\ RowsOutside(unified_daily_metrics, MaxDate, MaxDate) # <<>>

\* ------------------------------------------------------------------------
\* Copilot: get_copilot_context, generate_copilot_answer, POST /copilot/ask
\* ------------------------------------------------------------------------
\* lookback_days: int = 90
DefaultLookbackDays == 90

\* EXTENDED_LOOKBACK_DAYS = 400
ExtendedLookbackDays == 400

\* parse_date_range(start, end, default_days) with both dates given.
ParseDateRange(start, end, default_days) == <<start, end>>

\* get_copilot_context: the window, the unified_daily_metrics rows in it, and the
\* second call with the extended lookback when no range was given and the window
\* holds nothing.  `calls` lists the windows read, in order.
RECURSIVE GetCopilotContext(_, _, _, _, _)
GetCopilotContext(today, lookback_days, start_date, end_date, extended) ==
    LET window == IF start_date # None /\ end_date # None
                  THEN <<Get(start_date), Get(end_date)>>
                  ELSE ParseDateRange(today - lookback_days, today, lookback_days)
        rows == SelectSeq(unified_daily_metrics,
                          LAMBDA r : InWindow(r.date, window[1], window[2]))
        channel_list == {rows[i].channel : i \in DOMAIN rows}
        total_spend == RSumOver([c \in channel_list |-> RInt(SpendTotal(rows, c))],
                                channel_list)
        call == [start |-> window[1], end |-> window[2], lookback_days |-> lookback_days,
                 extended |-> extended, rows |-> Len(rows)]
    IN  IF /\ start_date = None
           /\ end_date = None
           /\ ~extended
           /\ total_spend = RZero
           /\ channel_list = {}
           /\ lookback_days < ExtendedLookbackDays
        THEN LET again == GetCopilotContext(today, ExtendedLookbackDays, None, None, TRUE)
             IN  [again EXCEPT !.calls = <<call>> \o @]
        ELSE [calls |-> <<call>>, start_date |-> window[1], end_date |-> window[2],
              channels |-> channel_list, total_spend |-> total_spend]

\* GET /copilot/context on the day `today`.
CopilotContext(today, lookback_days, start_date, end_date) ==
    /\ http' = [kind |-> "copilot_context", status_code |-> Some(200), today |-> today,
                lookback_days |-> lookback_days, start_date |-> start_date,
                end_date |-> end_date,
                context |-> GetCopilotContext(today, lookback_days, start_date, end_date,
                                              FALSE)]
    /\ UNCHANGED <<copilot_tables, last_metrics, raw_tables, attribution_events,
                   mmm_results, unified_daily_metrics, engine_run_metadata,
                   diagnostics_cache, pipeline_subscribers, last_attr, last_mmm, report,
                   pipe, n_calls, last_ingest>>

\* os.environ.get(name): a variable that is unset or set to "" is falsy.
EnvSet(value) == value # None /\ Get(value) # ""

\* _answer_with_gemini / _answer_with_openai: the provider's text, the template
\* answer when the library is missing or the text is empty, or an exception.
ProviderOutcomes == {"text", "empty", "import_error", "raises"}

ProviderAnswer(provider, outcome) == IF outcome = "text" THEN provider ELSE "template"

\* A generate_copilot_answer that gives up on OpenAI once Gemini was tried.
GenerateCopilotAnswerGeminiOnly(question, env, outcome, context) ==
    LET use_llm == Len(Strip(question)) > 10
        try_gemini == use_llm /\ EnvSet(env.gemini)
        gemini_ok == try_gemini /\ outcome.gemini # "raises"
        try_openai == ~try_gemini /\ use_llm /\ EnvSet(env.openai)
        openai_ok == try_openai /\ outcome.openai # "raises"
        answer == IF gemini_ok THEN ProviderAnswer("gemini", outcome.gemini)
                  ELSE IF openai_ok THEN ProviderAnswer("openai", outcome.openai)
                  ELSE "template"
    IN  [tried |-> (IF try_gemini THEN <<"gemini">> ELSE <<>>)
                   \o (IF try_openai THEN <<"openai">> ELSE <<>>),
         returned_by |-> IF gemini_ok THEN "gemini" ELSE IF openai_ok THEN "openai"
                         ELSE "template",
         raised |-> FALSE,
         result |-> <<answer, "sources", "model_versions_used", "recommendations",
                      "risks", "opportunities">>,
         context |-> context]

\* generate_copilot_answer: Gemini, then OpenAI, then the templates; what a
\* provider raises is swallowed.  The result is a tuple of six.
GenerateCopilotAnswer(question, env, outcome, context) ==
    LET use_llm == Len(Strip(question)) > 10
        try_gemini == use_llm /\ EnvSet(env.gemini)
        gemini_ok == try_gemini /\ outcome.gemini # "raises"
        try_openai == ~gemini_ok /\ use_llm /\ EnvSet(env.openai)
        openai_ok == try_openai /\ outcome.openai # "raises"
        answer == IF gemini_ok THEN ProviderAnswer("gemini", outcome.gemini)
                  ELSE IF openai_ok THEN ProviderAnswer("openai", outcome.openai)
                  ELSE "template"
    IN  [tried |-> (IF try_gemini THEN <<"gemini">> ELSE <<>>)
                   \o (IF try_openai THEN <<"openai">> ELSE <<>>),
         returned_by |-> IF gemini_ok THEN "gemini" ELSE IF openai_ok THEN "openai"
                         ELSE "template",
         raised |-> FALSE,
         result |-> <<answer, "sources", "model_versions_used", "recommendations",
                      "risks", "opportunities">>,
         context |-> context]

\* "How are we doing?"
DefaultQuestion ==
    <<"H", "o", "w", " ", "a", "r", "e", " ", "w", "e", " ", "d", "o", "i", "n", "g", "?">>

\* (body.question or "").strip() or "How are we doing?"
AskedQuestion(question) == IF Strip(question) = <<>> THEN DefaultQuestion ELSE Strip(question)

\* _copilot_ensure_session: a new copilot_sessions row, committed, when no
\* session_id came with the request.
EnsureSession(session_id) ==
    IF session_id # None THEN copilot_sessions
    ELSE Append(copilot_sessions, [id |-> Len(copilot_sessions) + 1, title |-> None])

\* (question[:50] + "...") if len(question) > 50 else question
SessionTitle(question) ==
    IF Len(question) > 50 THEN Append(SubSeq(question, 1, 50), "...") ELSE question

\* copilot_ask.  `answer, sources, model_versions_used = generate_copilot_answer(...)`
\* raises ValueError unless the tuple has three elements; the messages and the
\* title are written after it.
CopilotAsk(question, session_id, start_date, end_date, env, outcome, today) ==
    LET asked == AskedQuestion(question)
        sessions == EnsureSession(session_id)
        sid == IF session_id # None THEN Get(session_id) ELSE Len(sessions)
        explicit == start_date # None /\ end_date # None
        context == IF explicit
                   THEN GetCopilotContext(today, DefaultLookbackDays, start_date, end_date,
                                          FALSE)
                   ELSE GetCopilotContext(today, DefaultLookbackDays, None, None, FALSE)
        generated == GenerateCopilotAnswer(asked, env, outcome, context)
        unpacked == Len(generated.result) = 3
        user_msg == [id |-> Len(copilot_messages) + 1, session_id |-> sid,
                     role |-> "user", content |-> asked]
        assistant_msg == [id |-> Len(copilot_messages) + 2, session_id |-> sid,
                          role |-> "assistant", content |-> generated.result[1]]
    IN  /\ copilot_messages' =
              IF unpacked THEN copilot_messages \o <<user_msg, assistant_msg>>
              ELSE copilot_messages
        /\ copilot_sessions' =
              IF unpacked
              THEN [i \in DOMAIN sessions |->
                       IF sessions[i].id = sid /\ sessions[i].title = None
                       THEN [sessions[i] EXCEPT !.title = Some(SessionTitle(asked))]
                       ELSE sessions[i]]
              ELSE sessions
        /\ http' = [kind |-> "copilot_ask", question |-> question, asked |-> asked,
                    session_id |-> session_id, env |-> env, outcome |-> outcome,
                    sid |-> sid, messages_before |-> Len(copilot_messages),
                    generated |-> generated,
                    raised |-> IF unpacked THEN None ELSE Some("ValueError"),
                    status_code |-> Some(IF unpacked THEN 200 ELSE 500),
                    answer |-> IF unpacked THEN Some(generated.result[1]) ELSE None,
                    message_id |-> IF unpacked THEN Some(assistant_msg.id) ELSE None]
        /\ UNCHANGED <<last_metrics, raw_tables, attribution_events, mmm_results,
                       unified_daily_metrics, engine_run_metadata, diagnostics_cache,
                       pipeline_subscribers, last_attr, last_mmm, report, pipe, n_calls,
                       last_ingest>>

\* ------------------------------------------------------------------------
\* SpecCopilot: Copilot requests over a metrics table that run_metrics fills
\* ------------------------------------------------------------------------
MaxCopilotSessions == 1

\* A question of n characters.
QuestionOf(n) == [i \in 1..n |-> "x"]

\* No question, 10 characters with blanks around, 11 characters.
Questions == {<<>>, <<" ">> \o QuestionOf(10) \o <<" ">>, QuestionOf(11)}

\* GEMINI_API_KEY and OPENAI_API_KEY: unset, set to the empty string, or set.
EnvChoices ==
    {[gemini |-> None, openai |-> None], [gemini |-> Some("key"), openai |-> None],
     [gemini |-> None, openai |-> Some("key")], [gemini |-> Some("key"), openai |-> Some("key")],
     [gemini |-> Some(""), openai |-> Some("key")], [gemini |-> Some("key"), openai |-> Some("")]}

\* What the two providers would do when called.
OutcomeChoices ==
    {[gemini |-> "text", openai |-> "text"], [gemini |-> "empty", openai |-> "text"],
     [gemini |-> "import_error", openai |-> "raises"], [gemini |-> "raises", openai |-> "text"],
     [gemini |-> "raises", openai |-> "empty"], [gemini |-> "raises", openai |-> "import_error"],
     [gemini |-> "raises", openai |-> "raises"]}

\* The day of the request: the last day of the data, or 100, 380 or 500 days later.
Todays == {MaxDate, MaxDate + 100, MaxDate + 380, MaxDate + 500}

\* No dates, only a start date, a range with data, a range without.
DateArguments ==
    {<<None, None>>, <<Some(1), None>>, <<Some(1), Some(MaxDate)>>,
     <<Some(MaxDate + 1), Some(MaxDate + 1)>>}

\* lookback_days: int = Query(90, ge=7, le=365)
LookbackChoices == {7, DefaultLookbackDays, 365}

InitCopilot ==
    InitWith({<<ShopifyRow(PlainOrder("ord_1"))>>}, {<<>>}, {<<>>}, {NoAds, AdsSixtyForty})

CopilotRunMetrics ==
    /\ last_metrics.n < 1
    /\ MetricsCall(PipelineStart, PipelineEnd, None, FALSE)
    /\ UNCHANGED <<copilot_tables, http, last_ingest, raw_tables, attribution_events,
                   mmm_results, engine_run_metadata, diagnostics_cache,
                   pipeline_subscribers, last_attr, last_mmm, report, pipe, n_calls>>

CopilotContextRequest ==
    \E today \in Todays, lookback_days \in LookbackChoices, dates \in DateArguments :
        CopilotContext(today, lookback_days, dates[1], dates[2])

CopilotAskRequest ==
    \E question \in Questions, session_id \in {None, Some(1)},
       dates \in {<<None, None>>, <<Some(1), Some(MaxDate)>>},
       env \in EnvChoices, outcome \in OutcomeChoices :
        /\ session_id = None => Len(copilot_sessions) < MaxCopilotSessions
        /\ CopilotAsk(question, session_id, dates[1], dates[2], env, outcome, MaxDate + 100)

NextCopilot == CopilotRunMetrics \/ CopilotContextRequest \/ CopilotAskRequest

SpecCopilot == InitCopilot /\ [][NextCopilot]_vars

Asked == http.kind = "copilot_ask"

\* C23: POST /copilot/ask completes without error for every question, returns
\* the answer generate_copilot_answer produced, and leaves the session (created
\* when session_id is absent) with exactly one new user message followed by
\* exactly one new assistant message whose id is the message_id returned.
C23_AskAnswersAndRecords ==
    Asked =>
        /\ http.raised = None
        /\ http.status_code = Some(200)
        /\ http.answer = Some(http.generated.result[1])
        /\ Len(copilot_messages) = http.messages_before + 2
        /\ \E s \in DOMAIN copilot_sessions : copilot_sessions[s].id = http.sid
        /\ LET user_msg == copilot_messages[http.messages_before + 1]
               assistant_msg == copilot_messages[http.messages_before + 2]
           IN  /\ user_msg.role = "user" /\ user_msg.session_id = http.sid
               /\ assistant_msg.role = "assistant" /\ assistant_msg.session_id = http.sid
               /\ http.message_id = Some(assistant_msg.id)

\* What every request does instead: the answer is generated, its unpacking
\* raises, no message is written, and a request without session_id leaves one
\* new session without title behind.
AskRaisesBeforeRecording ==
    Asked =>
        /\ ~http.generated.raised
        /\ http.raised = Some("ValueError")
        /\ http.status_code = Some(500)
        /\ Len(copilot_messages) = http.messages_before
        /\ http.session_id = None =>
              /\ copilot_sessions[Len(copilot_sessions)].id = http.sid
              /\ copilot_sessions[Len(copilot_sessions)].title = None

AskWithoutSession == Asked /\ http.session_id = None /\ http.question = <<>>

ContextAsked == http.kind = "copilot_context"

\* C25: get_copilot_context always terminates: called without a date range on a
\* default window that holds no data it retries exactly once, with a 365-day
\* lookback, and the retry never retries; called with start_date and end_date
\* it never retries.
C25_RetryOnceWith365Days ==
    ContextAsked =>
        LET calls == http.context.calls
        IN  /\ Len(calls) \in {1, 2}
            /\ http.start_date # None /\ http.end_date # None => Len(calls) = 1
            /\ http.start_date = None /\ http.end_date = None /\ calls[1].rows = 0 =>
                  /\ Len(calls) = 2
                  /\ calls[2].extended
                  /\ calls[2].lookback_days = 365
                  /\ calls[2].start = http.today - 365
                  /\ calls[2].end = http.today

\* What holds: one retry at most, over the last 400 days, only when neither
\* date was given and the first window held no row.
RetryOnceWithExtendedLookback ==
    ContextAsked =>
        LET calls == http.context.calls
        IN  /\ Len(calls) \in {1, 2}
            /\ ~calls[1].extended
            /\ Len(calls) = 2 <=>
                  http.start_date = None /\ http.end_date = None /\ calls[1].rows = 0
            /\ Len(calls) = 2 =>
                  /\ calls[2].extended
                  /\ calls[2].lookback_days = 400
                  /\ calls[2].start = http.today - 400
                  /\ calls[2].end = http.today

\* A retry that reads rows older than 365 days.
RetryReadsOlderThan365Days ==
    /\ ContextAsked
    /\ Len(http.context.calls) = 2
    /\ http.context.calls[2].rows > 0
    /\ \A i \in DOMAIN unified_daily_metrics :
          unified_daily_metrics[i].date < http.today - 365

\* ------------------------------------------------------------------------
\* GET /api/v1/decisions: the run and the confidences handed to enrich_decisions
\* ------------------------------------------------------------------------
\* get_latest_run: the engine_run_metadata row with the greatest timestamp.
GetLatestRun ==
    IF engine_run_metadata = <<>> THEN None
    ELSE LET i == CHOOSE k \in DOMAIN engine_run_metadata :
                     \A j \in DOMAIN engine_run_metadata :
                         engine_run_metadata[j].timestamp <= engine_run_metadata[k].timestamp
         IN  Some(engine_run_metadata[i])

\* v1_decisions, between pipeline requests: run_id comes from the latest run
\* record, the two confidences from the diagnostics caches (0.5 when a cache is
\* empty).  mta_run and mmm_run name the request that filled each cache; `after`
\* is the pipeline request that ended last.
V1Decisions ==
    /\ pipe.pc \in {"idle", "done"}
    /\ http' = [kind |-> "v1_decisions", latest |-> GetLatestRun,
                run_id |-> IF GetLatestRun = None THEN None
                           ELSE Some(Get(GetLatestRun).run_id),
                mta_run |-> diagnostics_cache.mta, mmm_run |-> diagnostics_cache.mmm,
                after |-> [trigger |-> pipe.trigger, recorded |-> pipe.recorded,
                           run_no |-> pipe.run_no]]
    /\ UNCHANGED <<copilot_tables, last_metrics, raw_tables, attribution_events,
                   mmm_results, unified_daily_metrics, engine_run_metadata,
                   diagnostics_cache, pipeline_subscribers, last_attr, last_mmm, report,
                   pipe, n_calls, last_ingest>>

\* ------------------------------------------------------------------------
\* SpecDecisions: legacy and v1 pipeline requests with GET /api/v1/decisions
\* between them
\* ------------------------------------------------------------------------
MaxDecisionsRuns == 2

DecisionsRequest ==
    \E trigger \in Triggers, seed \in {None, Some(42)} :
        StartPipeline(trigger, seed, MaxDecisionsRuns)

DecisionsIngest == StageIngest(SampleDir, 0)

DecisionsAttribution == \E fail \in {"none", "core"} : StageAttribution(fail)

DecisionsMmm == \E fail \in MmmFailPoints : StageMmm(Fit(RInt(2), RInt(2)), fail)

DecisionsMetrics == StageMetrics(FALSE)

DecisionsRules == \E fail \in BOOLEAN : StageRules(fail)

DecisionsRecordRun == StageRecordRun(FALSE)

NextDecisions ==
    \/ DecisionsRequest
    \/ DecisionsIngest
    \/ DecisionsAttribution
    \/ DecisionsMmm
    \/ DecisionsMetrics
    \/ DecisionsRules
    \/ DecisionsRecordRun
    \/ Respond
    \/ Raised
    \/ V1Decisions

SpecDecisions == InitPipeline /\ [][NextDecisions]_vars

DecisionsAsked == http.kind = "v1_decisions"

\* C26: whenever GET /api/v1/decisions enriches decisions, the run it reports
\* (the latest recorded run) is the run that produced the cached MTA and MMM
\* confidence scores: after any sequence of legacy and v1 runs a non-empty
\* diagnostics cache is that of the latest recorded run.
C26_CachedScoresOfReportedRun ==
    DecisionsAsked =>
        /\ http.mta_run # None =>
              http.latest # None /\ Get(http.latest).timestamp = Get(http.mta_run)
        /\ http.mmm_run # None =>
              http.latest # None /\ Get(http.latest).timestamp = Get(http.mmm_run)

\* What holds: right after a v1 run that was recorded, the run reported and both
\* caches are that run's; and the MMM cache is never newer than the MTA cache.
DecisionsAfterRecordedV1Run ==
    DecisionsAsked =>
        /\ http.after.trigger = "v1_engine_run" /\ http.after.recorded =>
              /\ http.latest # None
              /\ Get(http.latest).timestamp = http.after.run_no
              /\ http.mta_run = Some(http.after.run_no)
              /\ http.mmm_run = Some(http.after.run_no)
        /\ http.mmm_run # None =>
              http.mta_run # None /\ Get(http.mmm_run) <= Get(http.mta_run)

\* Decisions asked after a recorded v1 run and a later recorded legacy run.
DecisionsAfterV1ThenLegacy ==
    /\ DecisionsAsked
    /\ http.mta_run = Some(1)
    /\ http.after.trigger = "trigger_run_sync" /\ http.after.recorded
    /\ Len(engine_run_metadata) = 2
====
